---- MODULE Spec2Model ----
(***************************************************************************)
(* A model of the vibrating alarm clock of src/pi: the Alarm entity and    *)
(* the AlarmClock registry and tick loop (src/pi/alarm.py) and the compact *)
(* command protocol of BluetoothAlarmManager                               *)
(* (src/pi/bluetooth_alarm_manager.py).                                    *)
(*                                                                         *)
(* Python values are encoded as follows.                                   *)
(*   str            a sequence of one-character strings                    *)
(*   None / tuple   last_triggered and current_time are <<>> for None and  *)
(*                  the tuple of integers otherwise                        *)
(*   Alarm.days     [kind |-> "none" | "list" | "tuple" | "str",           *)
(*                   v |-> sequence]                                       *)
(*   JSON days      [kind |-> "null" | "array" | "string", v |-> sequence] *)
(*   JSON object    a record whose domain is the set of its keys           *)
(*   other JSON     [json |-> "number" | "string" | "null"], as an element *)
(*                  of the stored list that is not an object               *)
(*   alarms.json    [state |-> "missing" | "corrupt" | "ok", data |-> the  *)
(*                  sequence of JSON values the file holds]                *)
(* Fields whose names start with g_ and the variables listed as history    *)
(* variables are not program state: they record what the last step did.    *)
(***************************************************************************)
EXTENDS Integers, Sequences, FiniteSets, TLC

(***************************************************************************)
(* Bounds of the model.                                                    *)
(***************************************************************************)
\* Add requests are issued only while the registry holds fewer alarms.
MaxAlarms == 2
\* The link delivers a write only while fewer commands are pending.
MaxPending == 1

\* The failing writes of the file in one run.
MaxFailures == 1

(***************************************************************************)
(* Python str operations on sequences of characters.                       *)
(***************************************************************************)
Digits == <<"0", "1", "2", "3", "4", "5", "6", "7", "8", "9">>

IsDigitChar(c) == \E i \in 1..10 : Digits[i] = c

DigitVal(c) == (CHOOSE i \in 1..10 : Digits[i] = c) - 1

IsSpace(c) == c = " "

\* str.isdigit(): non-empty and every character a digit.
IsDigit(s) == Len(s) > 0 /\ \A i \in 1..Len(s) : IsDigitChar(s[i])

RECURSIVE LStrip(_)
LStrip(s) == IF s # <<>> /\ IsSpace(Head(s)) THEN LStrip(Tail(s)) ELSE s

RECURSIVE RStrip(_)
RStrip(s) ==
    IF s # <<>> /\ IsSpace(s[Len(s)]) THEN RStrip(SubSeq(s, 1, Len(s) - 1)) ELSE s

\* str.strip()
Strip(s) == RStrip(LStrip(s))

\* str.replace(c, ''): every occurrence of the character c removed.
Remove(s, c) == SelectSeq(s, LAMBDA x : x # c)

\* str.split(sep) for a one-character separator.
RECURSIVE Split(_, _)
Split(s, sep) ==
    IF \A i \in 1..Len(s) : s[i] # sep
    THEN <<s>>
    ELSE LET k == CHOOSE i \in 1..Len(s) :
                      s[i] = sep /\ \A j \in 1..(i - 1) : s[j] # sep
         IN  <<SubSeq(s, 1, k - 1)>> \o Split(SubSeq(s, k + 1, Len(s)), sep)

\* str.lower() / str.upper() on the letters the protocol looks at.
LowerChar(c) ==
    CASE c = "A" -> "a" [] c = "R" -> "r" [] c = "L" -> "l" [] c = "T" -> "t"
      [] c = "S" -> "s" [] c = "P" -> "p" [] c = "O" -> "o" [] c = "W" -> "w"
      [] c = "X" -> "x" [] c = "Z" -> "z" [] OTHER -> c

UpperChar(c) ==
    CASE c = "a" -> "A" [] c = "r" -> "R" [] c = "l" -> "L" [] c = "t" -> "T"
      [] c = "s" -> "S" [] c = "p" -> "P" [] c = "o" -> "O" [] c = "w" -> "W"
      [] c = "x" -> "X" [] c = "z" -> "Z" [] OTHER -> c

Upper(s) == [i \in 1..Len(s) |-> UpperChar(s[i])]

RECURSIVE DigitsValue(_)
DigitsValue(s) ==
    IF s = <<>> THEN 0
    ELSE 10 * DigitsValue(SubSeq(s, 1, Len(s) - 1)) + DigitVal(s[Len(s)])

\* int(s): surrounding whitespace is ignored, one sign is allowed, the rest
\* must be digits; anything else raises ValueError (ok = FALSE).
ParseInt(s) ==
    LET t == Strip(s)
        signed == t # <<>> /\ Head(t) \in {"+", "-"}
        body == IF signed THEN Tail(t) ELSE t
    IN  IF IsDigit(body)
        THEN [ok |-> TRUE,
              v |-> IF signed /\ Head(t) = "-" THEN 0 - DigitsValue(body)
                    ELSE DigitsValue(body)]
        ELSE [ok |-> FALSE, v |-> 0]

\* str(n) for n >= 0.
RECURSIVE IntToStr(_)
IntToStr(n) ==
    IF n < 10 THEN <<Digits[n + 1]>>
    ELSE IntToStr(n \div 10) \o <<Digits[(n % 10) + 1]>>

\* f"{n:02d}" for n >= 0.
\* {n:02d} without the padding.
Fmt02_no_pad(n) == IntToStr(n)

Fmt02(n) == IF n < 10 THEN <<"0">> \o IntToStr(n) ELSE IntToStr(n)

(***************************************************************************)
(* The Alarm entity (class Alarm).                                         *)
(***************************************************************************)
Min(a, b) == IF a < b THEN a ELSE b

Max(a, b) == IF a > b THEN a ELSE b

\* The (year, month, day, hour, minute) key of a clock reading.
MinuteKey(current_time) == SubSeq(current_time, 1, 5)

NoDays == [kind |-> "none", v |-> <<>>]

ListDays(v) == [kind |-> "list", v |-> v]

TupleDays(v) == [kind |-> "tuple", v |-> v]

\* Alarm.__init__ keeping the strength it is given.
Alarm_no_clamp(hour, minute, days, name, enabled, recurring, vibration_strength) ==
    [hour |-> hour, minute |-> minute, days |-> days, name |-> name,
     enabled |-> enabled, recurring |-> recurring,
     vibration_strength |-> vibration_strength,
     last_triggered |-> <<>>,
     g_run |-> <<>>, g_consumed |-> FALSE]

\* Alarm.__init__: the strength is clamped, last_triggered starts as None.
\* g_run is the minute key in which this object fired while every clock
\* reading since has stayed in that minute (<<>> otherwise); g_consumed says
\* that this one-time alarm has fired and no toggle has re-enabled it since.
Alarm(hour, minute, days, name, enabled, recurring, vibration_strength) ==
    [hour |-> hour, minute |-> minute, days |-> days, name |-> name,
     enabled |-> enabled, recurring |-> recurring,
     vibration_strength |-> Max(0, Min(100, vibration_strength)),
     last_triggered |-> <<>>,
     g_run |-> <<>>, g_consumed |-> FALSE]

\* _get_weekday without the January/February shift.
get_weekday_no_shift(year, month, day) ==
    LET k == year % 100
        j == year \div 100
        weekday == (day + ((13 * (month + 1)) \div 5) + k + (k \div 4) + (j \div 4)
                    - 2 * j) % 7
    IN  (weekday + 5) % 7

\* _get_weekday with 0 = Sunday.
get_weekday_sunday_first(year, month, day) ==
    LET m == IF month < 3 THEN month + 12 ELSE month
        y == IF month < 3 THEN year - 1 ELSE year
        k == y % 100
        j == y \div 100
        weekday == (day + ((13 * (m + 1)) \div 5) + k + (k \div 4) + (j \div 4)
                    - 2 * j) % 7
    IN  (weekday + 6) % 7

\* Alarm._get_weekday: Zeller's congruence, remapped to 0 = Monday.
get_weekday(year, month, day) ==
    LET m == IF month < 3 THEN month + 12 ELSE month
        y == IF month < 3 THEN year - 1 ELSE year
        k == y % 100
        j == y \div 100
        weekday == (day + ((13 * (m + 1)) \div 5) + k + (k \div 4) + (j \div 4)
                    - 2 * j) % 7
    IN  (weekday + 5) % 7

InSeq(x, s) == \E i \in 1..Len(s) : s[i] = x

\* _add_days_to_date: feb is days_in_month[1], set from the year of the call
\* and set again each time the loop enters a new year.
FebOf(year) ==
    IF year % 4 = 0 /\ (year % 100 # 0 \/ year % 400 = 0) THEN 29 ELSE 28

RECURSIVE CarryDays(_, _, _, _)
CarryDays(year, month, day, feb) ==
    LET days_in_month == <<31, feb, 31, 30, 31, 30, 31, 31, 30, 31, 30, 31>>
    IN  IF day > days_in_month[month]
        THEN IF month + 1 > 12
             THEN CarryDays(year + 1, 1, day - days_in_month[month], FebOf(year + 1))
             ELSE CarryDays(year, month + 1, day - days_in_month[month], feb)
        ELSE <<year, month, day>>

\* _add_days_to_date that never sets February again.
add_days_to_date_stale_feb(year, month, day, days_to_add) ==
    LET RECURSIVE Carry(_, _, _)
        Carry(y, m, d) ==
            LET days_in_month == <<31, FebOf(year), 31, 30, 31, 30, 31, 31, 30, 31, 30, 31>>
            IN  IF d > days_in_month[m]
                THEN IF m + 1 > 12 THEN Carry(y + 1, 1, d - days_in_month[m])
                     ELSE Carry(y, m + 1, d - days_in_month[m])
                ELSE <<y, m, d>>
    IN  Carry(year, month, day + days_to_add)

add_days_to_date(year, month, day, days_to_add) ==
    CarryDays(year, month, day + days_to_add, FebOf(year))

\* _calculate_next_trigger with the clock reading current_time; <<>> is None.
calculate_next_trigger(alarm, current_time) ==
    IF current_time = <<>> THEN <<>>
    ELSE
    LET year == current_time[1]
        month == current_time[2]
        day == current_time[3]
        hour == current_time[4]
        minute == current_time[5]
        ahead == alarm.hour > hour \/ (alarm.hour = hour /\ alarm.minute > minute)
        At(date) == <<date[1], date[2], date[3], alarm.hour, alarm.minute, 0>>
    IN  CASE alarm.days.kind = "none" ->
                IF ahead THEN At(<<year, month, day>>)
                ELSE At(add_days_to_date(year, month, day, 1))
          [] alarm.days.kind = "list" ->
                IF InSeq(get_weekday(year, month, day), alarm.days.v) /\ ahead
                THEN At(<<year, month, day>>)
                ELSE LET Check(days_ahead) ==
                             add_days_to_date(year, month, day, days_ahead)
                         hits == {days_ahead \in 1..7 :
                                     LET check_date == Check(days_ahead)
                                     IN  InSeq(get_weekday(check_date[1], check_date[2],
                                                           check_date[3]),
                                               alarm.days.v)}
                     IN  IF hits = {} THEN <<>>
                         ELSE At(Check(CHOOSE n \in hits : \A o \in hits : n <= o))
          [] alarm.days.kind = "tuple" /\ Len(alarm.days.v) = 3 -> At(alarm.days.v)
          [] OTHER -> <<>>

\* The day condition of Alarm.should_trigger.
DayMatches(days, year, month, day) ==
    CASE days.kind = "none" -> TRUE
      [] days.kind = "list" -> InSeq(get_weekday(year, month, day), days.v)
      [] days.kind = "tuple" /\ Len(days.v) = 3 ->
            year = days.v[1] /\ month = days.v[2] /\ day = days.v[3]
      [] OTHER -> FALSE

\* should_trigger without the same-minute check.
should_trigger_no_key_check(self, current_time) ==
    LET current_minute_key == MinuteKey(current_time)
    IN  IF self.enabled /\ current_time[4] = self.hour
           /\ current_time[5] = self.minute
           /\ DayMatches(self.days, current_time[1], current_time[2], current_time[3])
        THEN [fires |-> TRUE,
              alarm |-> [self EXCEPT
                           !.last_triggered = current_minute_key,
                           !.enabled = IF self.recurring THEN @ ELSE FALSE]]
        ELSE [fires |-> FALSE, alarm |-> self]

\* should_trigger without the enabled check.
should_trigger_ignores_enabled(self, current_time) ==
    LET current_minute_key == MinuteKey(current_time)
    IN  IF current_time[4] = self.hour /\ current_time[5] = self.minute
           /\ self.last_triggered # current_minute_key
           /\ DayMatches(self.days, current_time[1], current_time[2], current_time[3])
        THEN [fires |-> TRUE,
              alarm |-> [self EXCEPT
                           !.last_triggered = current_minute_key,
                           !.enabled = IF self.recurring THEN @ ELSE FALSE]]
        ELSE [fires |-> FALSE, alarm |-> self]

\* should_trigger recording the minute key before the day condition is known.
should_trigger_early_key(self, current_time) ==
    LET current_minute_key == MinuteKey(current_time)
    IN  IF self.enabled /\ current_time[4] = self.hour
           /\ current_time[5] = self.minute
           /\ self.last_triggered # current_minute_key
        THEN [fires |-> DayMatches(self.days, current_time[1], current_time[2],
                                   current_time[3]),
              alarm |-> [self EXCEPT
                           !.last_triggered = current_minute_key,
                           !.enabled = IF self.recurring THEN @ ELSE FALSE]]
        ELSE [fires |-> FALSE, alarm |-> self]

\* Alarm.should_trigger: the returned value and the alarm as it is left.
should_trigger(self, current_time) ==
    LET year == current_time[1]
        month == current_time[2]
        day == current_time[3]
        hour == current_time[4]
        minute == current_time[5]
        current_minute_key == <<year, month, day, hour, minute>>
    IN  IF ~self.enabled
        THEN [fires |-> FALSE, alarm |-> self]
        ELSE IF hour # self.hour \/ minute # self.minute
        THEN [fires |-> FALSE, alarm |-> self]
        ELSE IF self.last_triggered = current_minute_key
        THEN [fires |-> FALSE, alarm |-> self]
        ELSE IF DayMatches(self.days, year, month, day)
        THEN [fires |-> TRUE,
              alarm |-> [self EXCEPT
                           !.last_triggered = current_minute_key,
                           !.enabled = IF self.recurring THEN @ ELSE FALSE]]
        ELSE [fires |-> FALSE, alarm |-> self]

\* Alarm.__str__ indexes the seven day names with every weekday of a list:
\* it raises IndexError when one of them is not a valid index.
AlarmStrRaises(self) ==
    /\ self.days.kind = "list"
    /\ \E i \in 1..Len(self.days.v) : self.days.v[i] > 6 \/ self.days.v[i] < -7

\* json.dump writes None as null, a list or a tuple as an array and a str
\* as a string; json.load reads null as None, an array as a list and a
\* string as a str.
JsonOfDays(days) ==
    CASE days.kind = "none" -> [kind |-> "null", v |-> <<>>]
      [] days.kind = "str" -> [kind |-> "string", v |-> days.v]
      [] OTHER -> [kind |-> "array", v |-> days.v]

DaysOfJson(j) ==
    CASE j.kind = "null" -> NoDays
      [] j.kind = "string" -> [kind |-> "str", v |-> j.v]
      [] OTHER -> ListDays(j.v)

\* Alarm.to_dict followed by json.dump: the JSON object of one alarm.
to_dict(self) ==
    [hour |-> self.hour, minute |-> self.minute, days |-> JsonOfDays(self.days),
     name |-> self.name, enabled |-> self.enabled, recurring |-> self.recurring,
     vibration_strength |-> self.vibration_strength]

\* dict.get(key, default)
Get(data, key, default) == IF key \in DOMAIN data THEN data[key] ELSE default

Str_Alarm == <<"A", "l", "a", "r", "m">>

\* Alarm.from_dict raises on a value that is not an object (TypeError) and
\* on an object without the key hour or minute (KeyError).
FromDictRaises(data) ==
    "json" \in DOMAIN data \/ "hour" \notin DOMAIN data \/ "minute" \notin DOMAIN data

\* Alarm.from_dict on an object read by json.load.
from_dict(data) ==
    Alarm(data.hour, data.minute,
          DaysOfJson(Get(data, "days", [kind |-> "null", v |-> <<>>])),
          Get(data, "name", Str_Alarm), Get(data, "enabled", TRUE),
          Get(data, "recurring", TRUE), Get(data, "vibration_strength", 75))

(***************************************************************************)
(* Persistence (AlarmClock.save_alarms_to_file / load_alarms_from_file).   *)
(***************************************************************************)
Missing == [state |-> "missing", data |-> <<>>]

Corrupt == [state |-> "corrupt", data |-> <<>>]

FileOf(data) == [state |-> "ok", data |-> data]

\* What one call of save_alarms_to_file can do to the file: write it, fail
\* before the file is opened for writing, or fail after it was truncated.
\* The exception is caught and printed in every case.
WriteOutcomes == {"ok", "unchanged", "truncated"}

save_alarms_to_file(alarms, storage, outcome) ==
    CASE outcome = "ok" ->
            FileOf([i \in 1..Len(alarms) |-> to_dict(alarms[i])])
      [] outcome = "unchanged" -> storage
      [] OTHER -> Corrupt

\* A missing or unparseable file yields the empty list; an element from_dict
\* raises on is passed over.
load_alarms_from_file(storage) ==
    IF storage.state = "ok"
    THEN LET kept == SelectSeq(storage.data, LAMBDA data : ~FromDictRaises(data))
         IN  [i \in 1..Len(kept) |-> from_dict(kept[i])]
    ELSE <<>>

(***************************************************************************)
(* The registry (AlarmClock.add_alarm, remove_alarm, toggle_alarm).  Each  *)
(* operator yields the value returned to the caller ("True", "False", or   *)
(* "raise" when an exception leaves the method), the list and the file as  *)
(* they are left, and the number of save_alarms_to_file calls made.        *)
(***************************************************************************)
Result(ret, alarms, storage, saves, outcome) ==
    [ret |-> ret, alarms |-> alarms, storage |-> storage, saves |-> saves,
     save_failed |-> saves > 0 /\ outcome # "ok"]

Str_Alarm_ == <<"A", "l", "a", "r", "m", " ">>

Str_BT_Alarm_ == <<"B", "T", " ">> \o Str_Alarm_

\* A lookup key: an int (isint) or a name.
IntKey(i) == [isint |-> TRUE, i |-> i, s |-> <<>>]

NameKey(s) == [isint |-> FALSE, i |-> 0, s |-> s]

\* add_alarm without the check of the strength.
add_alarm_no_strength_check(alarms, storage, outcome, hour, minute, days, name, recurring, vibration_strength) ==
    LET nm == IF name = <<>> THEN Str_Alarm_ \o IntToStr(Len(alarms) + 1)
              ELSE name[1]
    IN  IF ~(0 <= hour /\ hour <= 23) \/ ~(0 <= minute /\ minute <= 59)
        THEN Result("False", alarms, storage, 0, "ok")
        ELSE LET alarm == Alarm(hour, minute, days, nm, TRUE, recurring,
                                vibration_strength)
                 appended == Append(alarms, alarm)
             IN  Result(IF AlarmStrRaises(alarm) THEN "raise" ELSE "True", appended,
                        save_alarms_to_file(appended, storage, outcome), 1, outcome)

\* name is <<>> for None and <<str>> otherwise.
add_alarm(alarms, storage, outcome, hour, minute, days, name, recurring, vibration_strength) ==
    LET nm == IF name = <<>> THEN Str_Alarm_ \o IntToStr(Len(alarms) + 1)
              ELSE name[1]
    IN  IF ~(0 <= hour /\ hour <= 23)
        THEN Result("False", alarms, storage, 0, "ok")
        ELSE IF ~(0 <= minute /\ minute <= 59)
        THEN Result("False", alarms, storage, 0, "ok")
        ELSE IF ~(0 <= vibration_strength /\ vibration_strength <= 100)
        THEN Result("False", alarms, storage, 0, "ok")
        ELSE LET alarm == Alarm(hour, minute, days, nm, TRUE, recurring,
                                vibration_strength)
                 appended == Append(alarms, alarm)
                 saved == save_alarms_to_file(appended, storage, outcome)
             IN  \* print(f"Added: {alarm}") follows the save on every path
                 Result(IF AlarmStrRaises(alarm) THEN "raise" ELSE "True",
                        appended, saved, 1, outcome)

\* AlarmClock._get_alarm: the position (1-based) of the alarm found, 0 for None.
\* _get_alarm that keeps the last alarm of that name.
get_alarm_last_match(alarms, name_or_index) ==
    IF name_or_index.isint
    THEN IF 0 <= name_or_index.i /\ name_or_index.i < Len(alarms)
         THEN name_or_index.i + 1 ELSE 0
    ELSE IF \E k \in 1..Len(alarms) : alarms[k].name = name_or_index.s
         THEN CHOOSE k \in 1..Len(alarms) :
                  /\ alarms[k].name = name_or_index.s
                  /\ \A j \in (k + 1)..Len(alarms) : alarms[j].name # name_or_index.s
         ELSE 0

get_alarm(alarms, name_or_index) ==
    IF name_or_index.isint
    THEN IF 0 <= name_or_index.i /\ name_or_index.i < Len(alarms)
         THEN name_or_index.i + 1 ELSE 0
    ELSE IF \E k \in 1..Len(alarms) : alarms[k].name = name_or_index.s
         THEN CHOOSE k \in 1..Len(alarms) :
                  /\ alarms[k].name = name_or_index.s
                  /\ \A j \in 1..(k - 1) : alarms[j].name # name_or_index.s
         ELSE 0

\* list.pop(k - 1)
Pop(s, k) == SubSeq(s, 1, k - 1) \o SubSeq(s, k + 1, Len(s))

\* remove_alarm looks the alarm up as _get_alarm does, pops it, saves, and
\* prints it; an exception of the print is caught and falls through to
\* "Alarm not found".
remove_alarm(alarms, storage, outcome, name_or_index) ==
    LET k == get_alarm(alarms, name_or_index)
    IN  IF k = 0
        THEN Result("False", alarms, storage, 0, "ok")
        ELSE LET popped == Pop(alarms, k)
                 saved == save_alarms_to_file(popped, storage, outcome)
             IN  Result(IF AlarmStrRaises(alarms[k]) THEN "False" ELSE "True",
                        popped, saved, 1, outcome)

\* toggle_alarm without the save.
toggle_alarm_no_save(alarms, storage, outcome, name_or_index) ==
    LET k == get_alarm(alarms, name_or_index)
    IN  IF k = 0
        THEN Result("False", alarms, storage, 0, "ok")
        ELSE Result("True", [alarms EXCEPT ![k].enabled = ~@, ![k].g_consumed = FALSE],
                    storage, 0, "ok")

toggle_alarm(alarms, storage, outcome, name_or_index) ==
    LET k == get_alarm(alarms, name_or_index)
    IN  IF k = 0
        THEN Result("False", alarms, storage, 0, "ok")
        ELSE LET toggled == [alarms EXCEPT ![k].enabled = ~@,
                                           ![k].g_consumed = FALSE]
                 saved == save_alarms_to_file(toggled, storage, outcome)
             IN  Result("True", toggled, saved, 1, outcome)

(***************************************************************************)
(* The command protocol (BluetoothAlarmManager._execute_command and its    *)
(* handlers).  A frame is one _send_response call: head and kind are the   *)
(* literal parts of its text, args the formatted fields that follow them.  *)
(* The countdown field of OK:ADDED and ALARM frames and the fields of      *)
(* OK:STATUS are not modelled.                                             *)
(***************************************************************************)
Frame(head, kind, args) == [head |-> head, kind |-> kind, args |-> args]

\* _send_error_response
ErrorFrame(msg) == Frame("ERROR", msg, <<>>)

\* What a handler did: the registry result and the frames it sent.
Handled(res, frames) ==
    [ret |-> res.ret, alarms |-> res.alarms, storage |-> res.storage,
     saves |-> res.saves, save_failed |-> res.save_failed, frames |-> frames]

Untouched(alarms, storage, frames) ==
    Handled(Result("none", alarms, storage, 0, "ok"), frames)

\* The days field of an add command: None unless the field, commas and
\* spaces removed, is all digits; then the list of its all-digit items.
ParseDays(field) ==
    IF IsDigit(Remove(Remove(field, ","), " "))
    THEN LET items == Split(field, ",")
             kept == SelectSeq(items, LAMBDA d : IsDigit(Strip(d)))
         IN  ListDays([i \in 1..Len(kept) |-> ParseInt(Strip(kept[i])).v])
    ELSE NoDays

handle_add_alarm_compact(alarms, storage, outcome, command_str) ==
    LET parts == Split(Tail(command_str), ":")
    IN  IF Len(parts) < 2
        THEN Untouched(alarms, storage, <<ErrorFrame("Format: aHH:MM[:days][:name][:R/O]")>>)
        ELSE
        LET h == ParseInt(parts[1])
            m == ParseInt(parts[2])
        IN  IF ~h.ok \/ ~m.ok
            THEN Untouched(alarms, storage, <<ErrorFrame("Invalid time format")>>)
            ELSE
            LET hour == h.v
                minute == m.v
                days == IF Len(parts) > 2 /\ parts[3] # <<>>
                        THEN ParseDays(parts[3]) ELSE NoDays
                name == IF Len(parts) > 3 /\ parts[4] # <<>>
                        THEN parts[4]
                        ELSE Str_BT_Alarm_ \o IntToStr(Len(alarms) + 1)
                recurring == IF Len(parts) > 4 /\ parts[5] # <<>>
                             THEN Upper(parts[5]) # <<"O">> ELSE TRUE
            IN  IF ~(0 <= hour /\ hour <= 23)
                THEN Untouched(alarms, storage, <<ErrorFrame("Hour must be 0-23")>>)
                ELSE IF ~(0 <= minute /\ minute <= 59)
                THEN Untouched(alarms, storage, <<ErrorFrame("Minute must be 0-59")>>)
                ELSE
                LET res == add_alarm(alarms, storage, outcome, hour, minute,
                                     days, <<name>>, recurring, 75)
                IN  CASE res.ret = "True" ->
                            Handled(res, <<Frame("OK", "ADDED",
                                <<name, Fmt02(hour), Fmt02(minute)>>)>>)
                      [] res.ret = "raise" ->
                            Handled(res, <<ErrorFrame("Add alarm error: list index out of range")>>)
                      [] OTHER ->
                            Handled(res, <<ErrorFrame("Failed to add alarm")>>)

\* The target of a remove or toggle command: an int when int() accepts it.
ParseTarget(target) ==
    IF ParseInt(target).ok THEN IntKey(ParseInt(target).v) ELSE NameKey(target)

\* f"{target}" of a parsed target.
TargetStr(key) ==
    IF ~key.isint THEN key.s
    ELSE IF key.i < 0 THEN <<"-">> \o IntToStr(0 - key.i) ELSE IntToStr(key.i)

handle_remove_alarm_compact(alarms, storage, outcome, command_str) ==
    LET target == Strip(Tail(command_str))
    IN  IF target = <<>>
        THEN Untouched(alarms, storage, <<ErrorFrame("Format: rX (index or name)")>>)
        ELSE LET res == remove_alarm(alarms, storage, outcome, ParseTarget(target))
             IN  IF res.ret = "True"
                 THEN Handled(res, <<Frame("OK", "REMOVED",
                                          <<TargetStr(ParseTarget(target))>>)>>)
                 ELSE Handled(res, <<ErrorFrame("Alarm not found")>>)

Str_ON == <<"O", "N">>

Str_OFF == <<"O", "F", "F">>

handle_toggle_alarm_compact(alarms, storage, outcome, command_str) ==
    LET target == Strip(Tail(command_str))
    IN  IF target = <<>>
        THEN Untouched(alarms, storage, <<ErrorFrame("Format: tX (index or name)")>>)
        ELSE LET key == ParseTarget(target)
                 res == toggle_alarm(alarms, storage, outcome, key)
             IN  IF res.ret = "True"
                 THEN LET alarm == res.alarms[get_alarm(res.alarms, key)]
                      IN  Handled(res, <<Frame("OK", "TOGGLE",
                              <<alarm.name,
                                IF alarm.enabled THEN Str_ON ELSE Str_OFF>>)>>)
                 ELSE Handled(res, <<ErrorFrame("Alarm not found")>>)

\* alarm.name[:12]
Prefix(s, n) == SubSeq(s, 1, Min(Len(s), n))

\* _handle_list_alarms_compact numbering the alarms from 1.
handle_list_alarms_compact_from_one(alarms, storage) ==
    Untouched(alarms, storage,
        <<Frame("OK", "LIST", <<IntToStr(Len(alarms))>>)>> \o
        [i \in 1..Len(alarms) |->
            Frame("ALARM", "",
                  <<IntToStr(i), Prefix(alarms[i].name, 12),
                    Fmt02(alarms[i].hour), Fmt02(alarms[i].minute),
                    IF alarms[i].enabled THEN Str_ON ELSE Str_OFF,
                    IF alarms[i].recurring THEN <<"R">> ELSE <<"O">> >>)])

handle_list_alarms_compact(alarms, storage) ==
    IF alarms = <<>>
    THEN Untouched(alarms, storage,
                   <<Frame("OK", "LIST", <<IntToStr(0)>>), Frame("OK", "CLEAR", <<>>)>>)
    ELSE Untouched(alarms, storage,
           <<Frame("OK", "LIST", <<IntToStr(Len(alarms))>>)>> \o
           [i \in 1..Len(alarms) |->
               Frame("ALARM", "",
                     <<IntToStr(i - 1), Prefix(alarms[i].name, 12),
                       Fmt02(alarms[i].hour), Fmt02(alarms[i].minute),
                       IF alarms[i].enabled THEN Str_ON ELSE Str_OFF,
                       IF alarms[i].recurring THEN <<"R">> ELSE <<"O">> >>)])

execute_command(alarms, storage, outcome, command) ==
    LET command_str == Strip(command)
    IN  IF command_str = <<>>
        THEN Untouched(alarms, storage, <<ErrorFrame("Empty command")>>)
        ELSE
        LET cmd_type == LowerChar(Head(command_str))
        IN  CASE cmd_type = "a" ->
                    handle_add_alarm_compact(alarms, storage, outcome, command_str)
              [] cmd_type = "r" ->
                    handle_remove_alarm_compact(alarms, storage, outcome, command_str)
              [] cmd_type = "l" -> handle_list_alarms_compact(alarms, storage)
              [] cmd_type = "t" ->
                    handle_toggle_alarm_compact(alarms, storage, outcome, command_str)
              [] cmd_type = "s" ->
                    Untouched(alarms, storage, <<Frame("OK", "STATUS", <<>>)>>)
              [] cmd_type = "p" ->
                    Untouched(alarms, storage, <<Frame("OK", "PONG", <<>>)>>)
              [] OTHER ->
                    Untouched(alarms, storage,
                              <<Frame("ERROR", "Unknown command", <<<<cmd_type>>>>)>>)

(***************************************************************************)
(* The state.                                                              *)
(***************************************************************************)
VARIABLES
    alarms,          \* AlarmClock.alarms
    storage,         \* the file alarms.json
    command_queue,   \* BluetoothAlarmManager.command_queue
    pc,              \* where AlarmClock.run is: "sleep", "check", "pattern"
                     \* (inside trigger_alarm), "drain", "tasks" (in
                     \* run_bluetooth_tasks, after the queue was processed),
                     \* or "stopped" after the break of its loop
    current_time,    \* run's clock reading of this iteration, <<>> outside one
    next_alarm,      \* check_alarms: position of the alarm evaluated next
    alarms_modified, \* check_alarms: its local flag
    last,            \* history: what the last step did
    pass,            \* history: the save calls and firings of this pass
    dirty,           \* history: the latest save_alarms_to_file call failed
    write_failures,  \* history: the save_alarms_to_file calls that have failed
    consecutive_errors, \* run: its local counter of failed iterations
    delay,           \* the seconds run sleeps at the end of the iteration
    firing,          \* history: <<>> or the evaluation whose trigger_alarm runs
    connected,       \* BluetoothAlarmManager.connected
    conn_handle,     \* BluetoothAlarmManager.conn_handle: <<>> for None, or <<handle>>
    pwm,             \* the duty cycles of the two PWM outputs, motor1a and motor1b
    substep,         \* trigger_alarm: the drive calls its pattern has made
    button,          \* the hold-to-cancel input: the button has been held for
                     \* BUTTON_HOLD_MS
    calc,            \* the latest call of a date function made on its own:
                     \* its arguments and what it returned
    display,         \* a DisplayManager has been constructed for the alarm clock
    error_count,     \* BluetoothAlarmManager.error_count
    journal,         \* history: what has been recorded of the firings and of
                     \* the next triggers reported since the start
    last_heartbeat   \* BluetoothAlarmManager.last_heartbeat, against the
                     \* clock: "fresh", or "stale" when more than 300
                     \* seconds have passed since it was set

loop_vars == <<consecutive_errors, delay>>

link_vars == <<connected, conn_handle>>

motor_vars == <<pwm, substep, button>>

vars == <<alarms, storage, command_queue, pc, current_time, next_alarm,
          alarms_modified, last, pass, dirty, write_failures, loop_vars, firing,
          link_vars, motor_vars, calc, display, error_count, journal,
          last_heartbeat>>

\* ev: <<>> or the one alarm evaluation of the step, as
\*     <<[pos, time, fires, before]>>; exec: <<>> or <<the command executed>>;
\* sent: the frames sent; ret: what the registry method called returned;
\* saves / save_failed: the save_alarms_to_file calls made and whether one
\* failed; restarted: the step was a restart; tick: "failed" for an
\* iteration whose clock read gave None, "read" for the start and "done" for
\* the end of an iteration that had a reading; prev_delay: the delay before that iteration;
\* started: <<>> or the evaluation that has entered trigger_alarm; motor: the
\* calls of the motor functions made; link: the asynchronous event handled,
\* "connect", "disconnect", "write", "read" or "interrupt"; was_full: the
\* queue held max_queue_size commands when the write arrived; retries: the
\* retries count of the command executed; pattern: "drive" for one drive call
\* of the pattern, and at the end of trigger_alarm "completed" (the pattern
\* ran to its end), "failed" (a motor function raised and the handler
\* returned) or "raised" (the handler's motor_stop raised too); refreshed:
\* DisplayManager.force_update_display was called; health: what
\* check_connection_health found for a connected central, "timeout", "beat"
\* or "recent"; recovered: _recover_bluetooth was called.
Quiet ==
    [ev |-> <<>>, exec |-> <<>>, sent |-> <<>>, ret |-> "none", saves |-> 0,
     save_failed |-> FALSE, api |-> <<>>, restarted |-> FALSE,
     tick |-> "none", prev_delay |-> 0, started |-> <<>>, motor |-> 0,
     link |-> "none", was_full |-> FALSE, retries |-> 0, pattern |-> "none",
     refreshed |-> FALSE, health |-> "none", recovered |-> FALSE]

NoPass == [saves |-> 0, fired |-> 0, oneshots |-> 0, evaluated |-> 0]

NoCalc == [op |-> "none"]

\* History only.  A journal that is kept holds fired, the pairs <<position,
\* minute key>> of the firings, and reported, the triples <<position, t, T>>
\* of the add commands executed: the position of the alarm added, the clock
\* reading t of the iteration and the next trigger T computed for the answer.
\* A run that starts with kept = FALSE keeps none.
JournalOff == [kept |-> FALSE, fired |-> {}, reported |-> {}]

NoJournal == [kept |-> TRUE, fired |-> {}, reported |-> {}]

Journal_fired(j, pos, key) ==
    IF j.kept THEN [j EXCEPT !.fired = @ \cup {<<pos, key>>}] ELSE j

Journal_reported(j, list, ret, command, time) ==
    IF j.kept /\ ret = "True" /\ Strip(command) # <<>>
       /\ LowerChar(Head(Strip(command))) = "a"
    THEN [j EXCEPT !.reported = @ \cup
             {<<Len(list), time, calculate_next_trigger(list[Len(list)], time)>>}]
    ELSE j

(***************************************************************************)
(* The motor: two PWM outputs, set by motor_forward, motor_backward and    *)
(* motor_stop.  The duty cycle is int((strength / 100) * 65535).           *)
(***************************************************************************)
Duty(strength) == (strength * 65535) \div 100

motor_forward(strength) == [a |-> Duty(strength), b |-> 0]

motor_backward(strength) == [a |-> 0, b |-> Duty(strength)]

motor_stop == [a |-> 0, b |-> 0]

(***************************************************************************)
(* Startup: AlarmClock.__init__ loads the file; the queue is empty.        *)
(***************************************************************************)
Construct(file) ==
    /\ storage = file
    /\ alarms = load_alarms_from_file(file)
    /\ command_queue = <<>>
    /\ pc = "sleep"
    /\ current_time = <<>>
    /\ next_alarm = 0
    /\ alarms_modified = FALSE
    /\ last = Quiet
    /\ pass = NoPass
    /\ dirty = FALSE
    /\ write_failures = 0
    /\ consecutive_errors = 0
    /\ delay = 0
    /\ firing = <<>>
    /\ connected = FALSE
    /\ conn_handle = <<>>
    /\ pwm = motor_stop
    /\ substep = 0
    /\ button = FALSE
    /\ calc = NoCalc
    /\ display = FALSE
    /\ error_count = 0
    /\ last_heartbeat = "fresh"

\* The start of a run of which no journal is kept, and of one with a journal.
Startup(file) == Construct(file) /\ journal = JournalOff

StartupJournal(file) == Construct(file) /\ journal = NoJournal

(***************************************************************************)
(* AlarmClock.run, one iteration: the clock read.  A failed read (None)    *)
(* skips check_alarms and run_bluetooth_tasks, counts one more failed      *)
(* iteration and goes to the sleep at the end of the loop body.  With a    *)
(* reading, check_alarms starts; with no alarm to evaluate it ends at      *)
(* once.                                                                   *)
(***************************************************************************)
max_errors == 5

MaxClockFailures == 6

\* The sleep at the end of the loop body.
SleepInterval_late(errors) == IF errors > max_errors THEN 5 ELSE 1

SleepInterval(errors) == IF errors >= max_errors THEN 5 ELSE 1

\* The counter after a read that gave None.
FailedRead_no_count(errors) == errors

FailedRead(errors) == errors + 1

\* History only: an alarm's g_run ends when the clock is read in another minute.
KeepRuns(list, reading) ==
    [k \in 1..Len(list) |->
        IF list[k].g_run = MinuteKey(reading) THEN list[k]
        ELSE [list[k] EXCEPT !.g_run = <<>>]]

Tick(reading) ==
    /\ pc = "sleep"
    /\ IF reading = <<>>
       THEN /\ consecutive_errors < MaxClockFailures
            /\ consecutive_errors' = FailedRead(consecutive_errors)
            /\ delay' = SleepInterval(consecutive_errors')
            /\ last' = [Quiet EXCEPT !.tick = "failed", !.prev_delay = delay]
            /\ UNCHANGED <<alarms, storage, command_queue, pc, current_time,
                           next_alarm, alarms_modified, pass, dirty,
                           write_failures, firing, link_vars>>
       ELSE /\ current_time' = reading
            /\ alarms' = KeepRuns(alarms, reading)
            /\ pc' = IF alarms = <<>> THEN "drain" ELSE "check"
            /\ next_alarm' = IF alarms = <<>> THEN 0 ELSE 1
            /\ alarms_modified' = FALSE
            /\ pass' = NoPass
            /\ last' = [Quiet EXCEPT !.tick = "read"]
            /\ UNCHANGED <<storage, command_queue, dirty, write_failures, loop_vars, firing, link_vars>>
    /\ UNCHANGED <<motor_vars, calc, display, error_count, journal,
                   last_heartbeat>>

(***************************************************************************)
(* check_alarms, one turn of its loop, in steps.  CheckAlarm is            *)
(* should_trigger: when it does not fire the turn ends; when it fires,     *)
(* trigger_alarm is entered and the loop blocks in the actuator pattern.   *)
(* Drive is one drive call of the pattern.  TriggerAlarm is the rest of    *)
(* trigger_alarm from where it stands (the drive calls that remain, the    *)
(* stop, the save) and of the turn (the flag is set for a one-time alarm   *)
(* that was disabled).  After the last alarm the loop is left and the      *)
(* registry is saved once more if the flag is set.                         *)
(***************************************************************************)
alarm_duration == 5

\* What the motor functions do during trigger_alarm: "ok" they all return;
\* "raise" one of the pattern raises and the handler's motor_stop returns;
\* "raise_stop" the handler's motor_stop raises too.
MotorOk == {"ok"}

MotorOutcomes == {"ok", "raise", "raise_stop"}

\* trigger_alarm after the pattern: save_alarms_to_file, unless a motor
\* function has raised.
trigger_alarm(list, file, motor, outcome) ==
    IF motor = "ok" THEN save_alarms_to_file(list, file, outcome) ELSE file

\* Where check_alarms goes on after trigger_alarm: an exception that leaves
\* trigger_alarm is caught by the handler inside the loop over the alarms, so
\* the loop goes to the next alarm, or ends after the last one.
after_trigger_uncaught(motor, is_last) ==
    IF motor = "raise_stop" THEN "crashed"
    ELSE IF is_last THEN "drain" ELSE "check"

\* check_alarms leaving its loop at the first alarm that has fired.
after_trigger_ends_pass(motor, is_last) == "drain"

after_trigger(motor, is_last) == IF is_last THEN "drain" ELSE "check"

\* History only: a firing starts the alarm's run and consumes a one-time alarm.
Fired(alarm, key) ==
    [alarm EXCEPT !.g_run = key, !.g_consumed = ~alarm.recurring]

CheckAlarm(outcome) ==
    /\ pc = "check"
    /\ LET k == next_alarm
           r == should_trigger(alarms[k], current_time)
           ev == [pos |-> k, time |-> current_time, fires |-> r.fires,
                  before |-> alarms[k]]
           is_last == k = Len(alarms)
           final_save == is_last /\ alarms_modified
           failed == final_save /\ outcome # "ok"
       IN  IF r.fires
           THEN /\ outcome = "ok"
                /\ alarms' = [alarms EXCEPT ![k] = Fired(r.alarm, MinuteKey(current_time))]
                /\ pc' = "pattern"
                /\ firing' = <<ev>>
                /\ last' = [Quiet EXCEPT !.started = <<ev>>]
                /\ UNCHANGED <<storage, alarms_modified, next_alarm, pass,
                               dirty, write_failures>>
           ELSE /\ final_save \/ outcome = "ok"
                /\ failed => write_failures < MaxFailures
                /\ write_failures' = write_failures + (IF failed THEN 1 ELSE 0)
                /\ alarms' = [alarms EXCEPT ![k] = r.alarm]
                /\ storage' = IF final_save
                              THEN save_alarms_to_file(alarms', storage, outcome)
                              ELSE storage
                /\ next_alarm' = IF is_last THEN 0 ELSE k + 1
                /\ pc' = IF is_last THEN "drain" ELSE "check"
                /\ pass' = [pass EXCEPT
                              !.evaluated = @ + 1,
                              !.saves = @ + (IF final_save THEN 1 ELSE 0)]
                /\ last' = [Quiet EXCEPT
                              !.ev = <<ev>>,
                              !.saves = IF final_save THEN 1 ELSE 0,
                              !.save_failed = failed]
                /\ dirty' = IF final_save THEN failed ELSE dirty
                /\ UNCHANGED <<alarms_modified, firing>>
    /\ UNCHANGED <<command_queue, current_time, loop_vars, link_vars>>
    /\ journal' = IF should_trigger(alarms[next_alarm], current_time).fires
                  THEN Journal_fired(journal, next_alarm, MinuteKey(current_time))
                  ELSE journal
    /\ UNCHANGED <<motor_vars, calc, display, error_count, last_heartbeat>>

\* The n-th drive call of the pattern (n from 0): forward, then backward, in
\* turn, at the alarm's vibration_strength.
drive_default_strength(strength, n) ==
    IF n % 2 = 0 THEN motor_forward(100) ELSE motor_backward(100)

drive(strength, n) ==
    IF n % 2 = 0 THEN motor_forward(strength) ELSE motor_backward(strength)

\* The outputs when trigger_alarm is left: stopped by the motor_stop after the
\* pattern or by the handler's; when that motor_stop raises, one of its two
\* duty_u16 calls has failed and the outputs it had not yet set stay as they were.
stop_handler_forgets(outputs, outcome) ==
    IF outcome = "ok" THEN {motor_stop} ELSE {outputs}

after_pattern(outputs, outcome) ==
    IF outcome = "raise_stop"
    THEN {outputs, [outputs EXCEPT !.a = 0]}
    ELSE {motor_stop}

\* One drive call of the pattern and the sleep after it.
Drive ==
    /\ pc = "pattern"
    /\ substep < 2 * alarm_duration
    /\ pwm' = drive(alarms[next_alarm].vibration_strength, substep)
    /\ substep' = substep + 1
    /\ last' = [Quiet EXCEPT !.motor = 1, !.pattern = "drive"]
    /\ UNCHANGED <<alarms, storage, command_queue, pc, current_time,
                   next_alarm, alarms_modified, pass, dirty, write_failures,
                   loop_vars, firing, link_vars, button, calc, display,
                   error_count, journal, last_heartbeat>>

\* The drive calls that remain (with "ok"), motor_stop, the save and the rest
\* of the turn of check_alarms.
TriggerAlarm(motor, o1, o2) ==
    /\ pc = "pattern"
    /\ pwm' \in after_pattern(pwm, motor)
    /\ substep' = 0
    /\ UNCHANGED <<button, calc, display, error_count, journal,
                   last_heartbeat>>
    /\ LET k == next_alarm
           alarm == alarms[k]
           saved == motor = "ok"
           triggered == trigger_alarm(alarms, storage, motor, o1)
           modified == alarms_modified \/
                       (motor # "raise_stop" /\ ~alarm.enabled /\ ~alarm.recurring)
           is_last == k = Len(alarms)
           final_save == is_last /\ modified
           n_saves == (IF saved THEN 1 ELSE 0) + (IF final_save THEN 1 ELSE 0)
           n_failed == (IF o1 # "ok" THEN 1 ELSE 0) + (IF o2 # "ok" THEN 1 ELSE 0)
       IN  /\ saved \/ o1 = "ok"
           /\ final_save \/ o2 = "ok"
           /\ write_failures + n_failed <= MaxFailures
           /\ write_failures' = write_failures + n_failed
           /\ storage' = IF final_save
                         THEN save_alarms_to_file(alarms, triggered, o2)
                         ELSE triggered
           /\ alarms_modified' = modified
           /\ next_alarm' = IF is_last THEN 0 ELSE k + 1
           /\ pc' = after_trigger(motor, is_last)
           /\ pass' = [evaluated |-> pass.evaluated + 1,
                       saves |-> pass.saves + n_saves,
                       fired |-> pass.fired + 1,
                       oneshots |-> pass.oneshots +
                           (IF ~firing[1].before.recurring THEN 1 ELSE 0)]
           /\ last' = [Quiet EXCEPT
                         !.ev = firing,
                         !.saves = n_saves,
                         !.save_failed = (saved /\ o1 # "ok") \/
                                         (final_save /\ o2 # "ok"),
                         !.motor = IF motor = "ok"
                                   THEN 2 * alarm_duration - substep + 1
                                   ELSE 2,
                         !.pattern = IF motor = "ok" THEN "completed"
                                     ELSE IF motor = "raise" THEN "failed"
                                     ELSE "raised"]
           /\ dirty' = IF n_saves = 0 THEN dirty
                        ELSE (IF final_save THEN o2 ELSE o1) # "ok"
    /\ firing' = <<>>
    /\ UNCHANGED <<alarms, command_queue, current_time, loop_vars, link_vars>>

(***************************************************************************)
(* run_bluetooth_tasks: _process_command_queue pops and executes the       *)
(* commands one by one.  Its handler for an exception of _execute_command  *)
(* counts a retry, puts the command back at the end of the queue while it  *)
(* has been tried less than 3 times, answers ERROR otherwise, and leaves   *)
(* the pass.  With the queue empty the iteration ends.                     *)
(***************************************************************************)
\* Whether an exception leaves _execute_command: its whole body is inside a
\* try whose handler answers ERROR, and _send_response catches its own.
ExecuteRaises(command) == FALSE

max_retries == 3

ProcessCommand(outcome) ==
    /\ pc = "drain"
    /\ command_queue # <<>>
    /\ LET cmd_item == Head(command_queue)
           h == execute_command(alarms, storage, outcome, cmd_item.command)
           retried == [cmd_item EXCEPT !.retries = @ + 1]
       IN  IF ExecuteRaises(cmd_item.command)
           THEN /\ outcome = "ok"
                /\ command_queue' = IF retried.retries < max_retries
                                    THEN Append(Tail(command_queue), retried)
                                    ELSE Tail(command_queue)
                /\ last' = [Quiet EXCEPT
                              !.exec = <<cmd_item.command>>,
                              !.sent = IF retried.retries < max_retries THEN <<>>
                                       ELSE <<ErrorFrame("Command failed after retries")>>,
                              !.tick = "done", !.prev_delay = delay]
                /\ pc' = "sleep"
                /\ current_time' = <<>>
                /\ consecutive_errors' = 0
                /\ delay' = SleepInterval(0)
                /\ UNCHANGED <<alarms, storage, dirty, write_failures>>
           ELSE /\ h.saves > 0 \/ outcome = "ok"
                /\ outcome # "ok" => write_failures < MaxFailures
                /\ write_failures' = write_failures + (IF outcome # "ok" THEN 1 ELSE 0)
                /\ alarms' = h.alarms
                /\ storage' = h.storage
                /\ command_queue' = Tail(command_queue)
                /\ last' = [Quiet EXCEPT !.exec = <<cmd_item.command>>,
                                         !.sent = h.frames, !.ret = h.ret,
                                         !.saves = h.saves,
                                         !.save_failed = h.save_failed,
                                         !.retries = cmd_item.retries]
                /\ dirty' = IF h.saves = 0 THEN dirty ELSE outcome # "ok"
                /\ UNCHANGED <<pc, current_time, loop_vars>>
    /\ journal' = IF ExecuteRaises(Head(command_queue).command) THEN journal
                  ELSE LET command == Head(command_queue).command
                           h == execute_command(alarms, storage, outcome, command)
                       IN  Journal_reported(journal, h.alarms, h.ret, command,
                                            current_time)
    /\ UNCHANGED <<next_alarm, alarms_modified, pass, firing, link_vars>>
    /\ UNCHANGED <<motor_vars, calc, display, error_count, last_heartbeat>>

FinishTick ==
    /\ pc = "drain"
    /\ command_queue = <<>>
    /\ pc' = "sleep"
    /\ current_time' = <<>>
    /\ consecutive_errors' = 0
    /\ delay' = SleepInterval(0)
    /\ last' = [Quiet EXCEPT !.tick = "done", !.prev_delay = delay]
    /\ UNCHANGED <<alarms, storage, command_queue, next_alarm, alarms_modified,
                   pass, dirty, write_failures, firing, link_vars>>
    /\ UNCHANGED <<motor_vars, calc, display, error_count, journal,
                   last_heartbeat>>

(***************************************************************************)
(* A write of the connected client to the command characteristic           *)
(* (_ble_irq, _handle_write, _queue_command): it may arrive at any point   *)
(* of the loop and only queues the command.                                *)
(***************************************************************************)
max_queue_size == 10

\* _queue_command that keeps only the new command.
queue_command_replace(queue, command_str) ==
    <<[command |-> command_str, retries |-> 0]>>

\* _queue_command without the pop of the oldest command.
queue_command_no_drop(queue, command_str) ==
    Append(queue, [command |-> command_str, retries |-> 0])

queue_command(queue, command_str) ==
    Append(IF Len(queue) >= max_queue_size THEN Tail(queue) ELSE queue,
           [command |-> command_str, retries |-> 0])

IsAdd(command) ==
    Strip(command) # <<>> /\ LowerChar(Head(Strip(command))) = "a"

PendingAdds ==
    Cardinality({k \in 1..Len(command_queue) : IsAdd(command_queue[k].command)})

\* The bound on the requests made of the registry.
MayAdd == Len(alarms) + PendingAdds < MaxAlarms

\* _handle_write: a write event of connection conn to the characteristic
\* value_handle.
handle_write(queue, recorded, conn, value_handle, command_str) ==
    IF value_handle = "command" /\ <<conn>> = recorded
    THEN queue_command(queue, command_str)
    ELSE queue

HandleWrite(conn, value_handle, command) ==
    /\ command_queue' = handle_write(command_queue, conn_handle, conn,
                                     value_handle, command)
    /\ last' = [Quiet EXCEPT !.link = "write",
                             !.was_full = Len(command_queue) >= max_queue_size]
    /\ UNCHANGED <<alarms, storage, pc, current_time, next_alarm,
                   alarms_modified, pass, dirty, write_failures, loop_vars,
                   firing, link_vars>>
    /\ last_heartbeat' = IF value_handle = "command" /\ <<conn>> = conn_handle
                         THEN "fresh" ELSE last_heartbeat
    /\ UNCHANGED <<motor_vars, calc, display, error_count, journal>>

\* A write of the connected client to the command characteristic, within
\* the bounds on the requests.
GattsWrite(command) ==
    /\ connected
    /\ Len(command_queue) < MaxPending
    /\ IsAdd(command) => MayAdd
    /\ HandleWrite(conn_handle[1], "command", command)

(***************************************************************************)
(* The other events of the link (_ble_irq): a central connects             *)
(* (_handle_connect), disconnects (_handle_disconnect), or reads a         *)
(* characteristic (_handle_read_request).                                  *)
(***************************************************************************)
ClientHandle == 1

Connect(conn) ==
    /\ connected' = TRUE
    /\ conn_handle' = <<conn>>
    /\ error_count' = 0
    /\ last' = [Quiet EXCEPT !.link = "connect", !.sent = <<Frame("OK", "CONNECTED", <<>>)>>]
    /\ UNCHANGED <<alarms, storage, command_queue, pc, current_time,
                   next_alarm, alarms_modified, pass, dirty, write_failures,
                   loop_vars, firing>>
    /\ last_heartbeat' = "fresh"
    /\ UNCHANGED <<motor_vars, calc, display, journal>>

Disconnect(conn) ==
    /\ IF <<conn>> = conn_handle
       THEN connected' = FALSE /\ conn_handle' = <<>>
       ELSE UNCHANGED link_vars
    /\ last' = [Quiet EXCEPT !.link = "disconnect"]
    /\ UNCHANGED <<alarms, storage, command_queue, pc, current_time,
                   next_alarm, alarms_modified, pass, dirty, write_failures,
                   loop_vars, firing>>
    /\ UNCHANGED <<motor_vars, calc, display, error_count, journal,
                   last_heartbeat>>

ReadRequest(conn) ==
    /\ last' = [Quiet EXCEPT !.link = "read"]
    /\ UNCHANGED <<alarms, storage, command_queue, pc, current_time,
                   next_alarm, alarms_modified, pass, dirty, write_failures,
                   loop_vars, firing, link_vars>>
    /\ UNCHANGED <<motor_vars, calc, display, error_count, journal,
                   last_heartbeat>>

\* The central of the model connects while no connection is recorded.
ClientConnects == ~connected /\ Connect(ClientHandle)

(***************************************************************************)
(* KeyboardInterrupt: raised at any point of the loop body, it is not an   *)
(* Exception, so it passes the handlers of trigger_alarm and check_alarms  *)
(* and reaches the handler of run, which leaves the loop.                  *)
(***************************************************************************)
\* The hold-to-cancel input changes: the button has been held for
\* BUTTON_HOLD_MS, or it is released.
Button(held) ==
    /\ button # held
    /\ button' = held
    /\ last' = [Quiet EXCEPT !.link = "button"]
    /\ UNCHANGED <<alarms, storage, command_queue, pc, current_time, next_alarm,
                   alarms_modified, pass, dirty, write_failures, loop_vars,
                   firing, link_vars, pwm, substep, calc, display, error_count,
                   journal, last_heartbeat>>

\* DisplayManager(rtc, alarm_clock): the display collaborator is constructed
\* with a reference to the alarm clock; the alarm clock keeps none to it.
AttachDisplay ==
    /\ ~display
    /\ display' = TRUE
    /\ last' = [Quiet EXCEPT !.link = "display"]
    /\ UNCHANGED <<alarms, storage, command_queue, pc, current_time, next_alarm,
                   alarms_modified, pass, dirty, write_failures, loop_vars,
                   firing, link_vars, motor_vars, calc, error_count, journal,
                   last_heartbeat>>

Interrupt ==
    /\ pc # "stopped"
    /\ pc' = "stopped"
    /\ last' = [Quiet EXCEPT !.link = "interrupt"]
    /\ UNCHANGED <<alarms, storage, command_queue, current_time, next_alarm,
                   alarms_modified, pass, dirty, write_failures, loop_vars,
                   firing, link_vars>>
    /\ UNCHANGED <<motor_vars, calc, display, error_count, journal,
                   last_heartbeat>>

(***************************************************************************)
(* A direct call of AlarmClock.add_alarm (as setup_example_alarms makes),  *)
(* outside the loop.                                                       *)
(***************************************************************************)
AddCall(a, outcome) ==
    /\ pc = "sleep"
    /\ MayAdd
    /\ LET res == add_alarm(alarms, storage, outcome, a.hour, a.minute, a.days,
                            a.name, a.recurring, a.vibration_strength)
       IN  /\ res.saves > 0 \/ outcome = "ok"
           /\ outcome # "ok" => write_failures < MaxFailures
           /\ write_failures' = write_failures + (IF outcome # "ok" THEN 1 ELSE 0)
           /\ alarms' = res.alarms
           /\ storage' = res.storage
           /\ last' = [Quiet EXCEPT !.api = <<a>>, !.ret = res.ret,
                                    !.saves = res.saves,
                                    !.save_failed = res.save_failed]
           /\ dirty' = IF res.saves = 0 THEN dirty ELSE outcome # "ok"
    /\ UNCHANGED <<command_queue, pc, current_time, next_alarm,
                   alarms_modified, pass, loop_vars, firing, link_vars>>
    /\ UNCHANGED <<motor_vars, calc, display, error_count, journal,
                   last_heartbeat>>

(***************************************************************************)
(* The device restarts: everything in memory is lost, the file is loaded.  *)
(***************************************************************************)
Restart ==
    /\ alarms' = load_alarms_from_file(storage)
    /\ command_queue' = <<>>
    /\ pc' = "sleep"
    /\ current_time' = <<>>
    /\ next_alarm' = 0
    /\ alarms_modified' = FALSE
    /\ last' = [Quiet EXCEPT !.restarted = TRUE]
    /\ pass' = NoPass
    /\ consecutive_errors' = 0
    /\ delay' = 0
    /\ firing' = <<>>
    /\ connected' = FALSE
    /\ conn_handle' = <<>>
    /\ pwm' = motor_stop
    /\ substep' = 0
    /\ display' = FALSE
    /\ error_count' = 0
    /\ last_heartbeat' = "fresh"
    /\ UNCHANGED <<storage, dirty, write_failures, button, calc, journal>>

(***************************************************************************)
(* Commands of the protocol, as the client writes them.                    *)
(***************************************************************************)
Cmd_add_daily == <<"a", "7", ":", "3", "0">>

Cmd_add_work ==
    <<"a", "0", "7", ":", "3", "0", ":", "0", ",", "1", ",", "2", ",", "3", ",",
      "4", ":", "W", ":", "O">>

Cmd_add_day7 == <<"a", "7", ":", "3", "0", ":", "7">>

Cmd_add_day12 == <<"a", "7", ":", "3", "0", ":", "1", "2", ":", "W">>

Cmd_add_letters == <<"a", "7", ":", "3", "0", ":", "x", "y">>

Cmd_add_hour24 == <<"a", "2", "4", ":", "0", "0">>

Cmd_add_minute60 == <<"a", "7", ":", "6", "0">>

Cmd_add_nan == <<"a", "x", ":", "3", "0">>

Cmd_add_short == <<"a", "7">>

Cmd_toggle0 == <<"t", "0">>

Cmd_toggle1 == <<"t", "1">>

Cmd_toggleW == <<"t", "W">>

Cmd_toggle9 == <<"t", "9">>

Cmd_remove0 == <<"r", "0">>

Cmd_remove9 == <<"r", "9">>

Cmd_remove1 == <<"r", "1">>

Cmd_removeW == <<"r", "W">>

Cmd_unknown == <<"z">>

Cmd_blank == <<" ">>

Cmd_ping == <<"p">>

Cmd_list == <<"l">>

(***************************************************************************)
(* Alarms that initial files hold.  Every initial file is one that         *)
(* save_alarms_to_file has written.                                        *)
(***************************************************************************)
Daily == Alarm(7, 30, NoDays, <<"D">>, TRUE, TRUE, 75)

Once == Alarm(7, 30, NoDays, <<"O">>, TRUE, FALSE, 75)

WorkOnce == Alarm(7, 30, ListDays(<<0, 1, 2, 3, 4>>), <<"W">>, TRUE, FALSE, 50)

Work == Alarm(7, 30, ListDays(<<0, 1, 2, 3, 4>>), <<"W">>, TRUE, TRUE, 75)

Weekend == Alarm(7, 30, ListDays(<<5, 6>>), <<"E">>, TRUE, TRUE, 75)

Saved(list) == FileOf([i \in 1..Len(list) |-> to_dict(list[i])])

(***************************************************************************)
(* SpecEval: the tick loop evaluating loaded alarms, with toggle commands  *)
(* and restarts.  2024-01-05 is a Friday.                                  *)
(***************************************************************************)
EvalReadings ==
    {<<2024, 1, 5, 7, 30, 0>>, <<2024, 1, 5, 7, 30, 30>>, <<2024, 1, 5, 7, 31, 0>>,
     <<2024, 1, 6, 7, 30, 0>>, <<>>}

EvalFiles == {Saved(<<Daily, Once>>), Saved(<<Once, WorkOnce>>)}

EvalCommands == {Cmd_toggle0, Cmd_toggle1}

\* Every save of this specification succeeds.
EvalOutcomes == {"ok"}

InitEval == \E file \in EvalFiles : Startup(file)

NextEval ==
    \/ \E reading \in EvalReadings : Tick(reading)
    \/ \E outcome \in EvalOutcomes : CheckAlarm(outcome)
    \/ \E motor \in MotorOk, o1, o2 \in EvalOutcomes : TriggerAlarm(motor, o1, o2)
    \/ \E outcome \in EvalOutcomes : ProcessCommand(outcome)
    \/ FinishTick
    \/ \E command \in EvalCommands : GattsWrite(command)
    \/ ClientConnects
    \/ Restart

SpecEval == InitEval /\ [][NextEval]_vars

(***************************************************************************)
(* Properties of alarm evaluation, checked under SpecEval.                 *)
(***************************************************************************)
\* The program's fields of an alarm, without the history fields.
Fields(a) == [a EXCEPT !.g_run = <<>>, !.g_consumed = FALSE]

Evaluated == last.ev # <<>>

Ev == last.ev[1]

TimeMatches(a, time) == time[4] = a.hour /\ time[5] = a.minute

\* C1: once an alarm has fired in a calendar minute, every later evaluation
\* of it whose reading is still in that minute does not fire, whatever the
\* seconds and whatever toggles came in between.
C1_NoRefireWithinMinute ==
    Evaluated /\ Ev.before.g_run = MinuteKey(Ev.time) => ~Ev.fires

\* A one-time alarm that fired, was toggled on again within the same minute
\* and is evaluated at another second of that minute.
C1_Witness ==
    /\ Evaluated
    /\ Ev.before.g_run = MinuteKey(Ev.time)
    /\ ~Ev.before.recurring /\ Ev.before.enabled
    /\ Ev.time[6] = 30
    /\ ~Ev.fires

\* C2: a one-time alarm that fires is disabled when the evaluation returns,
\* and it fires at no later tick unless a toggle has re-enabled it.
C2_OneShotConsumed ==
    Evaluated =>
        /\ Ev.fires /\ ~Ev.before.recurring => ~alarms[Ev.pos].enabled
        /\ Ev.before.g_consumed => ~Ev.fires

\* A consumed one-time alarm evaluated at its time on the next day.
C2_Witness ==
    /\ Evaluated
    /\ Ev.before.g_consumed
    /\ Ev.before.days.kind = "none"
    /\ TimeMatches(Ev.before, Ev.time)
    /\ Ev.before.last_triggered # MinuteKey(Ev.time)
    /\ ~Ev.fires

\* C3: an evaluation changes the alarm exactly when it fires: then
\* last_triggered becomes the minute key of the reading and a one-time alarm
\* is disabled; otherwise enabled and last_triggered (and every other field)
\* are as before.
C3_EvaluationFrame ==
    Evaluated =>
        LET b == Ev.before
            a == alarms[Ev.pos]
        IN  /\ Ev.fires =>
                /\ Fields(a) = [Fields(b) EXCEPT
                                  !.last_triggered = MinuteKey(Ev.time),
                                  !.enabled = b.recurring]
                /\ Fields(a) # Fields(b)
            /\ ~Ev.fires => Fields(a) = Fields(b)

\* An enabled weekday alarm evaluated at its time on a day outside its set.
C3_Witness ==
    /\ Evaluated
    /\ Ev.before.enabled
    /\ Ev.before.days.kind = "list"
    /\ TimeMatches(Ev.before, Ev.time)
    /\ Ev.before.last_triggered # MinuteKey(Ev.time)
    /\ ~Ev.fires

\* C9: the firings of one evaluation pass cause at most one save, made after
\* all alarms have been evaluated and only if a one-time alarm fired.
C9_OneBatchedSave ==
    /\ pass.saves <= (IF pass.oneshots > 0 THEN 1 ELSE 0)
    /\ pc = "check" => pass.saves = 0

(***************************************************************************)
(* SpecWeek: weekday alarms evaluated on the seven days from Monday        *)
(* 2024-02-26 to Sunday 2024-03-03.                                        *)
(***************************************************************************)
WeekDates ==
    {<<2024, 2, 26>>, <<2024, 2, 27>>, <<2024, 2, 28>>, <<2024, 2, 29>>,
     <<2024, 3, 1>>, <<2024, 3, 2>>, <<2024, 3, 3>>}

WeekReadings ==
    {d \o <<7, 30, 0>> : d \in WeekDates} \cup {<<2024, 2, 29, 7, 31, 0>>}

WeekFiles == {Saved(<<Work>>), Saved(<<Weekend>>)}

InitWeek == \E file \in WeekFiles : Startup(file)

NextWeek ==
    \/ \E reading \in WeekReadings : Tick(reading)
    \/ \E outcome \in EvalOutcomes : CheckAlarm(outcome)
    \/ \E motor \in MotorOk, o1, o2 \in EvalOutcomes : TriggerAlarm(motor, o1, o2)
    \/ \E outcome \in EvalOutcomes : ProcessCommand(outcome)
    \/ FinishTick
    \/ GattsWrite(Cmd_toggle0)
    \/ ClientConnects

SpecWeek == InitWeek /\ [][NextWeek]_vars

\* The calendar by day count: 2000-01-01 was a Saturday.
IsLeap(y) == y % 4 = 0 /\ (y % 100 # 0 \/ y % 400 = 0)

MonthLength(y, m) ==
    IF m = 2 THEN (IF IsLeap(y) THEN 29 ELSE 28)
    ELSE IF m \in {4, 6, 9, 11} THEN 30 ELSE 31

RECURSIVE DaysBeforeYear(_)
DaysBeforeYear(y) ==
    IF y <= 2000 THEN 0
    ELSE DaysBeforeYear(y - 1) + (IF IsLeap(y - 1) THEN 366 ELSE 365)

RECURSIVE DaysBeforeMonth(_, _)
DaysBeforeMonth(y, m) ==
    IF m <= 1 THEN 0 ELSE DaysBeforeMonth(y, m - 1) + MonthLength(y, m - 1)

CalendarWeekday(y, m, d) ==
    (5 + DaysBeforeYear(y) + DaysBeforeMonth(y, m) + (d - 1)) % 7

\* C4: an enabled weekday alarm evaluated at its time, with no key of that
\* minute recorded, fires exactly when the weekday of the date is in its
\* set; with the set 0..4 that is Monday to Friday and never Saturday or
\* Sunday.
C4_WeekdaySet ==
    Evaluated =>
        LET b == Ev.before
            wd == CalendarWeekday(Ev.time[1], Ev.time[2], Ev.time[3])
        IN  /\ b.enabled
            /\ b.days.kind = "list"
            /\ TimeMatches(b, Ev.time)
            /\ b.last_triggered # MinuteKey(Ev.time)
            => /\ Ev.fires <=> InSeq(wd, b.days.v)
               /\ b.days.v = <<0, 1, 2, 3, 4>> => (Ev.fires <=> wd \notin {5, 6})

\* The Monday-to-Friday alarm fires on Friday 2024-03-01.
C4_Witness ==
    /\ Evaluated
    /\ Ev.before.days = ListDays(<<0, 1, 2, 3, 4>>)
    /\ MinuteKey(Ev.time) = <<2024, 3, 1, 7, 30>>
    /\ Ev.fires

(***************************************************************************)
(* SpecProto: the protocol interpreter on well-formed and malformed        *)
(* commands.                                                               *)
(***************************************************************************)
ProtoCommands ==
    {Cmd_add_daily, Cmd_add_work, Cmd_add_day7, Cmd_add_day12, Cmd_add_letters,
     Cmd_add_hour24, Cmd_add_minute60, Cmd_add_nan, Cmd_add_short, Cmd_toggle0,
     Cmd_toggleW, Cmd_toggle9, Cmd_remove0, Cmd_remove9, Cmd_unknown, Cmd_blank,
     Cmd_ping, Cmd_list}

ProtoReadings == {<<2024, 1, 5, 7, 30, 0>>, <<2024, 1, 5, 7, 31, 0>>}

ProtoFiles == {Missing, Saved(<<Daily>>)}

InitProto == \E file \in ProtoFiles : Startup(file)

NextProto ==
    \/ \E reading \in ProtoReadings : Tick(reading)
    \/ \E outcome \in EvalOutcomes : CheckAlarm(outcome)
    \/ \E motor \in MotorOk, o1, o2 \in EvalOutcomes : TriggerAlarm(motor, o1, o2)
    \/ \E outcome \in EvalOutcomes : ProcessCommand(outcome)
    \/ FinishTick
    \/ \E command \in ProtoCommands : GattsWrite(command)
    \/ ClientConnects

SpecProto == InitProto /\ [][NextProto]_vars

IsErrorFrame(frame) == frame.head = "ERROR"

AnsweredError(l) ==
    l.exec # <<>> /\ \E k \in 1..Len(l.sent) : IsErrorFrame(l.sent[k])

\* C5: a command answered with an ERROR frame leaves the alarm list and the
\* file exactly as they were.
C5_ErrorMeansNoMutation ==
    [][AnsweredError(last') => alarms' = alarms /\ storage' = storage]_vars

(***************************************************************************)
(* The days field of an add command as the protocol defines it: empty, or  *)
(* comma-separated integers each in 0..6.                                  *)
(***************************************************************************)
DaysFieldOf(command) ==
    LET parts == Split(Tail(Strip(command)), ":")
    IN  IF Len(parts) > 2 THEN parts[3] ELSE <<>>

WellFormedDays(field) ==
    \A k \in 1..Len(Split(field, ",")) :
        LET item == ParseInt(Split(field, ",")[k])
        IN  item.ok /\ item.v \in 0..6

BadDaysField(command) ==
    /\ IsAdd(command)
    /\ DaysFieldOf(command) # <<>>
    /\ ~WellFormedDays(DaysFieldOf(command))

ValidDays(a) ==
    \/ a.days.kind = "none"
    \/ a.days.kind = "list" /\ \A i \in 1..Len(a.days.v) : a.days.v[i] \in 0..6

\* C6: an add command whose days field is not empty and not a comma-separated
\* list of integers in 0..6 is answered with an ERROR frame and adds no
\* alarm, and every alarm of the registry is daily or has its weekdays in
\* 0..6.
C6_BadDaysRejected ==
    [][/\ last'.exec # <<>> /\ BadDaysField(last'.exec[1])
           => AnsweredError(last') /\ alarms' = alarms
       /\ \A k \in 1..Len(alarms') : ValidDays(alarms'[k])]_vars

(***************************************************************************)
(* SpecAdd: add_alarm called directly and through add commands, with       *)
(* arguments inside and outside the ranges.                                *)
(***************************************************************************)
AddArgs(hour, minute, days, name, recurring, vibration_strength) ==
    [hour |-> hour, minute |-> minute, days |-> days, name |-> name,
     recurring |-> recurring, vibration_strength |-> vibration_strength]

AddCalls ==
    {AddArgs(24, 0, NoDays, <<>>, TRUE, 75),
     AddArgs(-1, 30, NoDays, <<>>, TRUE, 75),
     AddArgs(7, 60, NoDays, <<>>, TRUE, 75),
     AddArgs(7, 30, NoDays, <<>>, TRUE, 101),
     AddArgs(7, 30, NoDays, <<>>, TRUE, -1),
     AddArgs(7, 30, TupleDays(<<2024, 1, 5>>), <<<<"T">>>>, FALSE, 100)}

AddCommands == {Cmd_add_daily, Cmd_add_hour24, Cmd_add_minute60}

AddReadings == {<<2024, 1, 5, 7, 30, 0>>}

AddFiles == {Missing, Saved(<<Once>>)}

InitAdd == \E file \in AddFiles : Startup(file)

NextAdd ==
    \/ \E reading \in AddReadings : Tick(reading)
    \/ \E outcome \in WriteOutcomes : CheckAlarm(outcome)
    \/ \E motor \in MotorOk, o1, o2 \in WriteOutcomes : TriggerAlarm(motor, o1, o2)
    \/ \E outcome \in WriteOutcomes : ProcessCommand(outcome)
    \/ FinishTick
    \/ \E command \in AddCommands : GattsWrite(command)
    \/ ClientConnects
    \/ \E a \in AddCalls, outcome \in WriteOutcomes : AddCall(a, outcome)

SpecAdd == InitAdd /\ [][NextAdd]_vars

OutOfRange(a) ==
    \/ a.hour \notin 0..23
    \/ a.minute \notin 0..59
    \/ a.vibration_strength \notin 0..100

\* An add command whose hour and minute are numbers, one of them out of range.
OutOfRangeCommand(command) ==
    LET parts == Split(Tail(Strip(command)), ":")
    IN  /\ IsAdd(command)
        /\ Len(parts) >= 2
        /\ ParseInt(parts[1]).ok /\ ParseInt(parts[2]).ok
        /\ ParseInt(parts[1]).v \notin 0..23 \/ ParseInt(parts[2]).v \notin 0..59

\* C7: an add with the hour outside 0..23, the minute outside 0..59 or the
\* strength outside 0..100 returns failure (an ERROR frame for a command),
\* leaves the alarm list and the file unchanged and makes no save call.
C7_OutOfRangeAddRejected ==
    [][/\ last'.api # <<>> /\ OutOfRange(last'.api[1])
           => /\ last'.ret = "False"
              /\ last'.saves = 0
              /\ alarms' = alarms /\ storage' = storage
       /\ last'.exec # <<>> /\ OutOfRangeCommand(last'.exec[1])
           => /\ AnsweredError(last')
              /\ last'.saves = 0
              /\ alarms' = alarms /\ storage' = storage]_vars

\* add_alarm has refused a strength of 101 on a registry holding an alarm.
C7_Witness ==
    /\ last.api # <<>>
    /\ last.api[1].vibration_strength = 101
    /\ last.ret = "False"
    /\ last.saves = 0
    /\ alarms # <<>>

(***************************************************************************)
(* SpecReg: the registry under add, toggle and remove commands and         *)
(* firings, with saves that fail and restarts.                             *)
(***************************************************************************)
RegCommands == {Cmd_add_daily, Cmd_toggle0, Cmd_remove0}

RegReadings == {<<2024, 1, 5, 7, 30, 0>>}

RegFiles == {Missing, Saved(<<Once>>)}

InitReg == \E file \in RegFiles : Startup(file)

\* A save succeeds, or fails and leaves the file cut short.
RegOutcomes == {"ok", "truncated"}

NextReg ==
    \/ \E reading \in RegReadings : Tick(reading)
    \/ \E outcome \in RegOutcomes : CheckAlarm(outcome)
    \/ \E motor \in MotorOk, o1, o2 \in RegOutcomes : TriggerAlarm(motor, o1, o2)
    \/ \E outcome \in RegOutcomes : ProcessCommand(outcome)
    \/ FinishTick
    \/ \E command \in RegCommands : GattsWrite(command)
    \/ ClientConnects
    \/ Restart

SpecReg == InitReg /\ [][NextReg]_vars

\* The records the file holds; no file holds none.
PersistedRecords == IF storage.state = "ok" THEN storage.data ELSE <<>>

SameFields(rec, a) ==
    /\ rec.hour = a.hour /\ rec.minute = a.minute
    /\ rec.name = a.name
    /\ rec.enabled = a.enabled /\ rec.recurring = a.recurring
    /\ rec.vibration_strength = a.vibration_strength
    /\ IF a.days.kind = "none" THEN rec.days.kind = "null"
       ELSE rec.days.kind = "array" /\ rec.days.v = a.days.v

\* C8: an add, remove or toggle that reports success, and a firing that
\* disables a one-time alarm, has saved the registry before it returns; and
\* unless the latest save has failed or trigger_alarm is still running, the
\* file holds the alarms of the registry, in order, with equal hour, minute,
\* days, name, enabled, recurring and strength.
C8_MutationsArePersisted ==
    /\ last.ret = "True" => last.saves >= 1
    /\ Evaluated /\ Ev.fires /\ ~Ev.before.recurring => last.saves >= 1
    /\ ~dirty /\ pc # "pattern" =>
          /\ storage.state # "corrupt"
          /\ Len(PersistedRecords) = Len(alarms)
          /\ \A i \in 1..Len(alarms) : SameFields(PersistedRecords[i], alarms[i])

\* After a save that failed, a one-time alarm has fired and the file holds it
\* disabled.
C8_Witness ==
    /\ write_failures > 0
    /\ ~dirty
    /\ Evaluated /\ Ev.fires /\ ~Ev.before.recurring
    /\ storage.state = "ok"
    /\ ~storage.data[Ev.pos].enabled

(***************************************************************************)
(* SpecFail: commands that mutate the registry while saves fail.           *)
(***************************************************************************)
FailCommands == {Cmd_add_daily, Cmd_add_day7, Cmd_toggle0, Cmd_remove0}

FailReadings == {<<2024, 1, 5, 7, 30, 0>>}

FailFiles == {Saved(<<Once>>)}

InitFail == \E file \in FailFiles : Startup(file)

NextFail ==
    \/ \E reading \in FailReadings : Tick(reading)
    \/ \E outcome \in WriteOutcomes : CheckAlarm(outcome)
    \/ \E motor \in MotorOk, o1, o2 \in WriteOutcomes : TriggerAlarm(motor, o1, o2)
    \/ \E outcome \in WriteOutcomes : ProcessCommand(outcome)
    \/ FinishTick
    \/ \E command \in FailCommands : GattsWrite(command)
    \/ ClientConnects

SpecFail == InitFail /\ [][NextFail]_vars

\* C10: when a save fails during an add, remove, toggle or a firing that
\* disables a one-time alarm, the change of the alarm list is kept, the
\* registry method still returns success, and the loop goes on with the
\* pass.
C10_FailedSaveKeepsSuccess ==
    [][last'.save_failed =>
           /\ last'.exec # <<>> => alarms' # alarms /\ last'.ret = "True"
           /\ last'.ev # <<>> /\ last'.ev[1].fires =>
                 LET e == last'.ev[1]
                 IN  /\ alarms'[e.pos].last_triggered = MinuteKey(e.time)
                     /\ ~e.before.recurring => ~alarms'[e.pos].enabled
           /\ pc' \in {"check", "drain"}]_vars

(***************************************************************************)
(* SpecTrip: alarms of the three recurrence rules are added, saved, and    *)
(* read back by a restart.                                                 *)
(***************************************************************************)
TripCalls ==
    {AddArgs(7, 30, TupleDays(<<2024, 1, 5>>), <<<<"T">>>>, FALSE, 75),
     AddArgs(7, 30, ListDays(<<5, 6>>), <<<<"E">>>>, TRUE, 75),
     AddArgs(7, 30, NoDays, <<>>, TRUE, 50)}

TripReadings == {<<2024, 1, 5, 7, 30, 0>>, <<2024, 1, 6, 7, 30, 0>>}

InitTrip == \E file \in AddFiles : Startup(file)

NextTrip ==
    \/ \E reading \in TripReadings : Tick(reading)
    \/ \E outcome \in EvalOutcomes : CheckAlarm(outcome)
    \/ \E motor \in MotorOk, o1, o2 \in EvalOutcomes : TriggerAlarm(motor, o1, o2)
    \/ \E outcome \in EvalOutcomes : ProcessCommand(outcome)
    \/ FinishTick
    \/ \E command \in EvalCommands : GattsWrite(command)
    \/ ClientConnects
    \/ \E a \in TripCalls, outcome \in EvalOutcomes : AddCall(a, outcome)
    \/ Restart

SpecTrip == InitTrip /\ [][NextTrip]_vars

\* The fields of an alarm that the file records.
Recognized(a) ==
    [hour |-> a.hour, minute |-> a.minute, days |-> a.days, name |-> a.name,
     enabled |-> a.enabled, recurring |-> a.recurring,
     vibration_strength |-> a.vibration_strength]

\* C11: a restart that loads the file the registry has saved yields the
\* same ordered list of alarms with equal hour, minute, recurrence rule
\* (none, weekday list or date tuple), name, enabled, recurring and
\* strength, and saving the loaded list writes the content the file holds.
C11_RoundTrip ==
    [][last'.restarted /\ ~dirty /\ storage.state = "ok" =>
           /\ Len(alarms') = Len(alarms)
           /\ \A i \in 1..Len(alarms) : Recognized(alarms'[i]) = Recognized(alarms[i])
           /\ save_alarms_to_file(alarms', storage', "ok") = storage']_vars

(***************************************************************************)
(* SpecLoad: the program starts and restarts on files that hold lists of   *)
(* well-formed and malformed elements.                                     *)
(***************************************************************************)
MaxRecords == 2

\* Elements of a stored list: a full object, an object with hour and minute
\* only, an object without hour, a number, and an object whose days is a
\* string.
LoadRecords ==
    {to_dict(Daily),
     [hour |-> 6, minute |-> 15],
     [minute |-> 30, enabled |-> TRUE],
     [json |-> "number"],
     [hour |-> 7, minute |-> 30, days |-> [kind |-> "string", v |-> <<"a", "b", "c">>]]}

LoadFiles ==
    {Missing, Corrupt} \cup
    UNION {{FileOf(data) : data \in [1..n -> LoadRecords]} : n \in 1..MaxRecords}

InitLoad == \E file \in LoadFiles : Startup(file)

NextLoad ==
    \/ \E reading \in AddReadings : Tick(reading)
    \/ \E outcome \in EvalOutcomes : CheckAlarm(outcome)
    \/ \E motor \in MotorOk, o1, o2 \in EvalOutcomes : TriggerAlarm(motor, o1, o2)
    \/ FinishTick
    \/ Restart

SpecLoad == InitLoad /\ [][NextLoad]_vars

\* An object with an hour and a minute whose days, if present, is null or an
\* array.
WellFormedRecord(data) ==
    /\ "json" \notin DOMAIN data
    /\ "hour" \in DOMAIN data /\ "minute" \in DOMAIN data
    /\ "days" \in DOMAIN data => data.days.kind \in {"null", "array"}

\* C12: a restart on a missing or unparseable file yields the empty
\* registry, and a restart on a stored list yields the alarms of exactly the
\* well-formed elements, in their order.
C12_LoadKeepsWellFormed ==
    [][last'.restarted =>
           LET wf == SelectSeq(PersistedRecords, WellFormedRecord)
           IN  /\ Len(alarms') = Len(wf)
               /\ \A i \in 1..Len(wf) :
                      /\ alarms'[i].hour = wf[i].hour
                      /\ alarms'[i].minute = wf[i].minute]_vars

(***************************************************************************)
(* SpecLoop: iterations with and without a clock reading, with commands    *)
(* written between and during them.                                        *)
(***************************************************************************)
LoopReadings == {<<2024, 1, 5, 7, 30, 0>>, <<>>}

LoopFiles == {Saved(<<Once, Work>>)}

InitLoop == \E file \in LoopFiles : Startup(file)

NextLoop ==
    \/ \E reading \in LoopReadings : Tick(reading)
    \/ \E outcome \in EvalOutcomes : CheckAlarm(outcome)
    \/ \E motor \in MotorOk, o1, o2 \in EvalOutcomes : TriggerAlarm(motor, o1, o2)
    \/ \E outcome \in EvalOutcomes : ProcessCommand(outcome)
    \/ FinishTick
    \/ \E command \in EvalCommands : GattsWrite(command)
    \/ ClientConnects

SpecLoop == InitLoop /\ [][NextLoop]_vars

\* C13: an iteration whose clock read fails evaluates and changes no alarm,
\* writes no file, makes no actuator call and raises the counter of
\* consecutive failures by exactly one; in an iteration with a reading every
\* alarm is evaluated, and the counter is 0 when the iteration ends.
C13_FailedReadSkipsEvaluation ==
    [][/\ last'.tick = "failed" =>
              /\ alarms' = alarms /\ storage' = storage
              /\ last'.ev = <<>> /\ last'.started = <<>> /\ last'.saves = 0
              /\ last'.motor = 0
              /\ pc' = "sleep"
              /\ consecutive_errors' = consecutive_errors + 1
       /\ pc # "drain" /\ pc' = "drain" => pass'.evaluated = Len(alarms')
       /\ last'.tick = "done" => consecutive_errors' = 0]_vars

\* An iteration with a reading has ended after failed reads before it, and
\* both alarms were evaluated in it.
C13_Witness ==
    /\ last.tick = "done" /\ last.prev_delay = 5
    /\ pass.evaluated = 2 /\ consecutive_errors = 0

\* C14: the sleep at the end of an iteration is 5 seconds exactly when the
\* counter of consecutive failures is at least 5 then, and 1 second
\* otherwise; an iteration with a reading ends with the 1 second sleep, also
\* after a 5 second one.
C14_BackoffDelay ==
    [][/\ last'.tick \in {"failed", "done"} =>
              delay' = IF consecutive_errors' >= 5 THEN 5 ELSE 1
       /\ last'.tick = "done" => delay' = 1]_vars

\* The fifth failed read in a row has set the 5 second sleep.
C14_Witness ==
    last.tick = "failed" /\ consecutive_errors = 5 /\ delay = 5 /\ last.prev_delay = 1

\* C17: every iteration, also one whose clock read failed, ends with the
\* queue drained.
C17_DrainEveryIteration ==
    [][last'.tick \in {"failed", "done"} => command_queue' = <<>>]_vars

(***************************************************************************)
(* SpecLink: the events of the link, from the connected central and from   *)
(* another one, arrive at every point of the loop, also while the actuator *)
(* pattern of a firing alarm runs.                                         *)
(***************************************************************************)
MaxQueued == 2

Handles == {ClientHandle, 2}

ValueHandles == {"command", "status"}

\* A toggle of the first alarm and a toggle of an alarm that does not exist.
LinkCommands == {Cmd_toggle0, Cmd_toggle9}

NextLink ==
    \/ \E reading \in LoopReadings : Tick(reading)
    \/ \E outcome \in EvalOutcomes : CheckAlarm(outcome)
    \/ \E motor \in MotorOk, o1, o2 \in EvalOutcomes : TriggerAlarm(motor, o1, o2)
    \/ \E outcome \in EvalOutcomes : ProcessCommand(outcome)
    \/ FinishTick
    \/ \E conn \in Handles : Connect(conn)
    \/ \E conn \in Handles : Disconnect(conn)
    \/ \E conn \in Handles : ReadRequest(conn)
    \/ \E conn \in Handles, value_handle \in ValueHandles, command \in LinkCommands :
          /\ Len(command_queue) < MaxQueued
          /\ HandleWrite(conn, value_handle, command)

SpecLink == InitLoop /\ [][NextLink]_vars

\* The queue q is the beginning of the queue r.
IsPrefix(q, r) == Len(q) <= Len(r) /\ SubSeq(r, 1, Len(q)) = q

\* C16: a connect, disconnect, write or read request changes neither the
\* alarm list nor the file nor the position of the loop; a write only
\* appends to the queue and the other events leave the queue as it is; and
\* while the loop stays inside the actuator pattern no alarm is evaluated
\* or changed and no queued command is taken from the queue.
C16_LinkEventsOnlyQueue ==
    [][/\ last'.link # "none" =>
              alarms' = alarms /\ storage' = storage /\ pc' = pc
       /\ last'.link = "write" =>
              /\ IsPrefix(command_queue, command_queue')
              /\ Len(command_queue') <= Len(command_queue) + 1
       /\ last'.link \in {"connect", "disconnect", "read"} =>
              command_queue' = command_queue
       /\ pc = "pattern" /\ pc' = "pattern" =>
              /\ last'.ev = <<>> /\ last'.exec = <<>>
              /\ alarms' = alarms /\ storage' = storage
              /\ IsPrefix(command_queue, command_queue')]_vars

\* A second command has been queued by a write that arrived while the
\* actuator pattern of the one-time alarm was running.
C16_Witness ==
    /\ pc = "pattern" /\ firing # <<>> /\ ~firing[1].before.recurring
    /\ last.link = "write"
    /\ Len(command_queue) = 2

\* The execution of the last step failed: the command was answered ERROR.
ExecutionFailed == AnsweredError(last')

\* C19: a command whose execution fails is put back until it has failed 3
\* times: while it has failed less often it stays queued with one more
\* retry counted and no ERROR is sent; at the third failure exactly one
\* ERROR frame is sent and the command is no longer queued.
C19_RetryThenError ==
    [][last'.exec # <<>> /\ ExecutionFailed =>
           LET cmd_item == Head(command_queue)
               retried == [cmd_item EXCEPT !.retries = @ + 1]
           IN  IF retried.retries < 3
               THEN /\ \E k \in 1..Len(command_queue') : command_queue'[k] = retried
                    /\ \A k \in 1..Len(last'.sent) : ~IsErrorFrame(last'.sent[k])
               ELSE /\ \A k \in 1..Len(command_queue') : command_queue'[k] # retried
                    /\ Cardinality({k \in 1..Len(last'.sent) : IsErrorFrame(last'.sent[k])}) = 1]_vars

\* C20: a drain pass executes the oldest queued command first; a command
\* that fails with retries left keeps its place at the head of the queue,
\* before the commands that arrived after it; the pass ends with commands
\* still queued only at a command whose retries are exhausted, and then the
\* commands behind it stay queued in their order.
C20_FifoAndStopAtExhausted ==
    [][last'.exec # <<>> =>
           LET cmd_item == Head(command_queue)
               retried == [cmd_item EXCEPT !.retries = @ + 1]
               behind == Tail(command_queue)
           IN  /\ last'.exec[1] = cmd_item.command
               /\ IF ~ExecutionFailed
                  THEN IsPrefix(behind, command_queue') /\ pc' = "drain"
                  ELSE IF retried.retries < 3
                  THEN IsPrefix(<<retried>> \o behind, command_queue')
                  ELSE IsPrefix(behind, command_queue') /\ pc' = "sleep"]_vars

(***************************************************************************)
(* SpecLive: the loop under failures of every kind (clock reads that give  *)
(* None, saves that fail, motor functions that raise, commands whose       *)
(* handler raises, the central going away) and the user's interrupt.  The  *)
(* loop is a sequential program that takes its next step whenever it has   *)
(* one, hence the weak fairness of its steps; the central is taken not to  *)
(* write while a drain pass runs, so that each pass finds its queue empty  *)
(* after finitely many commands.                                           *)
(***************************************************************************)
LiveCommands == {Cmd_toggle0, Cmd_add_day7}

NextLive ==
    \/ \E reading \in LoopReadings : Tick(reading)
    \/ \E outcome \in RegOutcomes : CheckAlarm(outcome)
    \/ \E motor \in MotorOutcomes, o1, o2 \in RegOutcomes : TriggerAlarm(motor, o1, o2)
    \/ \E outcome \in RegOutcomes : ProcessCommand(outcome)
    \/ FinishTick
    \/ \E command \in LiveCommands : pc # "drain" /\ GattsWrite(command)
    \/ ClientConnects
    \/ Disconnect(ClientHandle)
    \/ Interrupt

\* ProcessCommand is enabled exactly when a drain pass has a command to
\* take, and its steps are the steps of NextLive that take the head of the
\* queue during a pass; its weak fairness is written out with these two.
CommandPending == pc = "drain" /\ command_queue # <<>>

TakesCommand == CommandPending /\ command_queue' = Tail(command_queue)

Fairness ==
    /\ WF_vars(\E reading \in LoopReadings : Tick(reading))
    /\ WF_vars(\E outcome \in RegOutcomes : CheckAlarm(outcome))
    /\ WF_vars(\E motor \in MotorOutcomes, o1, o2 \in RegOutcomes : TriggerAlarm(motor, o1, o2))
    /\ []<>(~CommandPending) \/ []<><<TakesCommand>>_vars
    /\ WF_vars(FinishTick)

SpecLive == InitFail /\ [][NextLive]_vars /\ Fairness

QueueCommands == {Cmd_ping, Cmd_list}

InitQueue == Startup(Missing)

NextQueue ==
    \/ \E reading \in AddReadings : Tick(reading)
    \/ \E outcome \in EvalOutcomes : ProcessCommand(outcome)
    \/ FinishTick
    \/ ClientConnects
    \/ \E command \in QueueCommands : HandleWrite(ClientHandle, "command", command)

SpecQueue == InitQueue /\ [][NextQueue]_vars

\* C18: the queue never holds more than 10 commands; a write of the
\* connected central appends its command at the tail, after dropping the
\* oldest command when 10 are queued; and a step of the drain pass never
\* lengthens the queue.
C18_QueueBounded ==
    [][/\ Len(command_queue') <= 10
       /\ last'.link = "write" /\ connected =>
              /\ command_queue' # <<>>
              /\ command_queue'[Len(command_queue')].retries = 0
              /\ SubSeq(command_queue', 1, Len(command_queue') - 1) =
                     IF Len(command_queue) = 10 THEN Tail(command_queue)
                     ELSE command_queue
       /\ last'.exec # <<>> => Len(command_queue') <= Len(command_queue)]_vars

\* A write has arrived with 10 commands queued, during a drain pass, and the
\* command it dropped was not the command it brought.
C18_Witness ==
    /\ last.link = "write" /\ last.was_full
    /\ pc = "drain"
    /\ Len(command_queue) = 10
    /\ command_queue[1].command # command_queue[10].command

(***************************************************************************)
(* SpecMotor: the tick loop with the actuator pattern of trigger_alarm     *)
(* taken one drive call at a time, motor functions that may raise, and the *)
(* hold-to-cancel button.  Two alarms of strengths 50 and 75 fire in the   *)
(* same minute.                                                            *)
(***************************************************************************)
MotorFiles == {Saved(<<WorkOnce, Daily>>)}

InitMotor == \E file \in MotorFiles : Startup(file)

\* The end of trigger_alarm: after the last drive call of the pattern, or at
\* the motor call that raises.
EndPattern(motor, o1, o2) ==
    /\ motor = "ok" => substep = 2 * alarm_duration
    /\ TriggerAlarm(motor, o1, o2)

NextMotor ==
    \/ \E reading \in LoopReadings : Tick(reading)
    \/ \E outcome \in MotorOk : CheckAlarm(outcome)
    \/ Drive
    \/ \E motor \in MotorOutcomes, o1, o2 \in MotorOk : EndPattern(motor, o1, o2)
    \/ FinishTick
    \/ \E held \in BOOLEAN : Button(held)

SpecMotor == InitMotor /\ [][NextMotor]_vars

\* C21: while the pattern of a firing alarm runs, the hold-to-cancel input is
\* polled between the drive calls: with the cancel signal present, no further
\* drive call is made (the pattern ends before its 5 cycles complete).
C21_CancelEndsPattern ==
    [][pc = "pattern" /\ button => substep' # substep + 1]_vars

\* C22: each drive call of trigger_alarm sets the outputs forward, then
\* backward, in turn, at the strength of the alarm that fires; the pattern
\* completes after exactly 2 * 5 drive calls; and when trigger_alarm returns,
\* after the whole pattern or after an error in the middle of it, both
\* outputs are at 0.
C22_PatternThenStop ==
    [][/\ last'.pattern = "drive" =>
            /\ firing # <<>>
            /\ LET d == (firing[1].before.vibration_strength * 65535) \div 100
               IN  pwm' = IF substep % 2 = 0 THEN [a |-> d, b |-> 0]
                                             ELSE [a |-> 0, b |-> d]
       /\ last'.pattern = "completed" =>
            substep = 2 * 5 /\ pwm' = [a |-> 0, b |-> 0]
       /\ last'.pattern = "failed" => pwm' = [a |-> 0, b |-> 0]]_vars

\* Both alarms have fired, each pattern was driven call by call to its end.
C22_Witness ==
    /\ last.pattern = "completed"
    /\ last.motor = 1
    /\ pass.fired = 2
    /\ pwm = [a |-> 0, b |-> 0]

\* What should_trigger has to answer for the alarm b at the reading time:
\* enabled, at its hour and minute, on a day of its recurrence by the
\* day-count calendar, and no firing recorded for that minute.
DueAt(b, time) ==
    /\ b.enabled
    /\ time[4] = b.hour /\ time[5] = b.minute
    /\ b.last_triggered # <<time[1], time[2], time[3], time[4], time[5]>>
    /\ \/ b.days.kind = "none"
       \/ /\ b.days.kind = "list"
          /\ InSeq(CalendarWeekday(time[1], time[2], time[3]), b.days.v)

\* C32: in a pass with a clock reading, the alarms are evaluated in registry
\* order, each against the reading of the pass, every alarm that is due at
\* that reading fires, and the pass goes on to the next alarm and ends only
\* after the last, also after an alarm has fired (and run its pattern) or its
\* trigger_alarm has raised.
C32_EveryDueAlarmFires ==
    [][/\ pc = "check" /\ (last'.started # <<>> \/ last'.ev # <<>>) =>
            LET e == IF last'.started # <<>> THEN last'.started[1] ELSE last'.ev[1]
            IN  /\ current_time # <<>>
                /\ e.time = current_time
                /\ e.pos = next_alarm
                /\ e.before = alarms[e.pos]
                /\ e.fires <=> DueAt(e.before, e.time)
                /\ e.fires <=> last'.started # <<>>
       /\ pc = "pattern" /\ last'.ev # <<>> =>
            /\ last'.ev[1].fires
            /\ last'.ev[1].pos = next_alarm
            /\ last'.ev[1].time = current_time
       /\ last'.ev # <<>> =>
            /\ last'.ev[1].pos < Len(alarms) =>
                  pc' = "check" /\ next_alarm' = last'.ev[1].pos + 1
            /\ last'.ev[1].pos = Len(alarms) =>
                  pc' = "drain" /\ pass'.evaluated = Len(alarms)
       /\ last'.tick = "read" /\ alarms # <<>> => pc' = "check" /\ next_alarm' = 1
       /\ pc = "check" => pass.evaluated = next_alarm - 1]_vars

\* The second alarm fires in a pass in which the trigger_alarm of the first
\* has raised and left an output driven.
C32_Witness ==
    /\ last.started # <<>>
    /\ last.started[1].pos = 2
    /\ last.started[1].fires
    /\ pass.fired = 1 /\ pass.saves = 0
    /\ pwm # [a |-> 0, b |-> 0]

(***************************************************************************)
(* SpecCmd: the tick loop executing add commands with valid fields, as the *)
(* test client composes them (aHH:MM:days:name:flag), with saves that may  *)
(* fail.  A field record gives the text of each field and what it means.   *)
(***************************************************************************)
AddField(hour, hour_text, hh, minute, minute_text, mm, days, days_text, name, flag) ==
    [hour |-> hour, hour_text |-> hour_text, hh |-> hh, minute |-> minute,
     minute_text |-> minute_text, mm |-> mm, days |-> days,
     days_text |-> days_text, name |-> name, flag |-> flag]

\* flag: <<>> when the command ends after the name, else <<the flag field>>.
ValidAdds ==
    { AddField(7, <<"0", "7">>, <<"0", "7">>, 30, <<"3", "0">>, <<"3", "0">>,
               <<0, 1, 2, 3, 4>>, <<"0", ",", "1", ",", "2", ",", "3", ",", "4">>,
               <<"W", "o", "r", "k">>, <<<<"R">>>>),
      AddField(12, <<"1", "2">>, <<"1", "2">>, 30, <<"3", "0">>, <<"3", "0">>,
               <<>>, <<>>, <<"T", "e", "s", "t">>, <<<<"O">>>>),
      AddField(7, <<"7">>, <<"0", "7">>, 5, <<"5">>, <<"0", "5">>,
               <<6>>, <<"6">>, <<"S">>, <<<<"o">>>>),
      AddField(23, <<"2", "3">>, <<"2", "3">>, 59, <<"5", "9">>, <<"5", "9">>,
               <<5, 6>>, <<"5", ",", "6">>, <<"E">>, <<>>),
      AddField(0, <<"0", "0">>, <<"0", "0">>, 0, <<"0", "0">>, <<"0", "0">>,
               <<>>, <<>>, <<"N">>, <<<<"X">>>>) }

AddCommand(f) ==
    <<"a">> \o f.hour_text \o <<":">> \o f.minute_text \o <<":">> \o
    f.days_text \o <<":">> \o f.name \o
    (IF f.flag = <<>> THEN <<>> ELSE <<":">> \o f.flag[1])

NextCmd ==
    \/ \E reading \in AddReadings : Tick(reading)
    \/ \E outcome \in WriteOutcomes : CheckAlarm(outcome)
    \/ \E motor \in MotorOk, o1, o2 \in WriteOutcomes : TriggerAlarm(motor, o1, o2)
    \/ \E outcome \in WriteOutcomes : ProcessCommand(outcome)
    \/ FinishTick
    \/ \E f \in ValidAdds : GattsWrite(AddCommand(f))
    \/ ClientConnects

SpecCmd == InitAdd /\ [][NextCmd]_vars

\* What an executed add command with the fields f has to do, the flags in
\* one_time making the alarm a one-time alarm.
AddedAsAsked(f, one_time) ==
    last'.exec = <<AddCommand(f)>> =>
        /\ Len(alarms') = Len(alarms) + 1
        /\ \A k \in 1..Len(alarms) : alarms'[k] = alarms[k]
        /\ LET a == alarms'[Len(alarms')]
           IN  /\ a.hour = f.hour
               /\ a.minute = f.minute
               /\ a.days = IF f.days = <<>> THEN NoDays ELSE ListDays(f.days)
               /\ a.name = f.name
               /\ a.enabled
               /\ a.recurring <=> f.flag \notin one_time
        /\ Len(last'.sent) = 1
        /\ last'.sent[1].head = "OK"
        /\ last'.sent[1].kind = "ADDED"
        /\ Len(last'.sent[1].args) >= 3
        /\ last'.sent[1].args[1] = f.name
        /\ last'.sent[1].args[2] = f.hh
        /\ last'.sent[1].args[3] = f.mm

IndexFiles == {Saved(<<Work, Daily, WorkOnce>>)}

IndexCommands ==
    {Cmd_list, Cmd_toggle0, Cmd_toggle1, Cmd_toggleW, Cmd_toggle9, Cmd_remove0,
     Cmd_remove1, Cmd_removeW}

InitIndex == \E file \in IndexFiles : Startup(file)

NextIndex ==
    \/ \E reading \in AddReadings : Tick(reading)
    \/ \E outcome \in RegOutcomes : CheckAlarm(outcome)
    \/ \E motor \in MotorOk, o1, o2 \in RegOutcomes : TriggerAlarm(motor, o1, o2)
    \/ \E outcome \in RegOutcomes : ProcessCommand(outcome)
    \/ FinishTick
    \/ \E command \in IndexCommands : GattsWrite(command)
    \/ ClientConnects

SpecIndex == InitIndex /\ [][NextIndex]_vars

\* The text of a number below 100 in two digits, read back.
TwoDigits(text, n) ==
    /\ Len(text) = 2
    /\ text[1] \in {"0", "1", "2", "3", "4", "5", "6", "7", "8", "9"}
    /\ text[2] \in {"0", "1", "2", "3", "4", "5", "6", "7", "8", "9"}
    /\ 10 * DigitVal(text[1]) + DigitVal(text[2]) = n

IndexText == <<<<"0">>, <<"1">>, <<"2">>, <<"3">>>>

\* C24: a list command on a registry of n > 0 alarms sends one OK:LIST:n
\* frame and then n ALARM frames, with the indices 0..n-1 in registry order,
\* each with the hour, minute, ON/OFF and R/O of that alarm; the registry
\* and the file stay as they were.
C24_ListFrames ==
    [][last'.exec = <<Cmd_list>> /\ alarms # <<>> =>
        /\ alarms' = alarms
        /\ storage' = storage
        /\ last'.saves = 0
        /\ Len(last'.sent) = Len(alarms) + 1
        /\ last'.sent[1].head = "OK"
        /\ last'.sent[1].kind = "LIST"
        /\ last'.sent[1].args = <<IndexText[Len(alarms) + 1]>>
        /\ \A k \in 1..Len(alarms) :
              LET frame == last'.sent[k + 1]
              IN  /\ frame.head = "ALARM"
                  /\ Len(frame.args) >= 6
                  /\ frame.args[1] = IndexText[k]
                  /\ frame.args[2] = alarms[k].name
                  /\ TwoDigits(frame.args[3], alarms[k].hour)
                  /\ TwoDigits(frame.args[4], alarms[k].minute)
                  /\ frame.args[5] = <<"O", "N">> <=> alarms[k].enabled
                  /\ frame.args[5] = <<"O", "F", "F">> <=> ~alarms[k].enabled
                  /\ frame.args[6] = <<"R">> <=> alarms[k].recurring
                  /\ frame.args[6] = <<"O">> <=> ~alarms[k].recurring]_vars

\* A list of two alarms, the first recurring and switched off, the second
\* the one-time alarm, disabled by its firing.
C24_Witness ==
    /\ last.exec = <<Cmd_list>>
    /\ Len(alarms) = 2
    /\ Len(last.sent) = 3
    /\ alarms[1].recurring /\ ~alarms[1].enabled
    /\ ~alarms[2].recurring /\ ~alarms[2].enabled

\* The commands of SpecIndex that name an alarm, with what they ask for: the
\* position counted from 0, or the name.
ByIndex == {[cmd |-> Cmd_toggle0, op |-> "toggle", i |-> 0],
            [cmd |-> Cmd_toggle1, op |-> "toggle", i |-> 1],
            [cmd |-> Cmd_toggle9, op |-> "toggle", i |-> 9],
            [cmd |-> Cmd_remove0, op |-> "remove", i |-> 0],
            [cmd |-> Cmd_remove1, op |-> "remove", i |-> 1]}

ByName == {[cmd |-> Cmd_toggleW, op |-> "toggle", name |-> <<"W">>],
           [cmd |-> Cmd_removeW, op |-> "remove", name |-> <<"W">>]}

\* Position k (from 1) of the registry is toggled and nothing else changes.
ToggledAt(k) ==
    /\ Len(alarms') = Len(alarms)
    /\ alarms'[k].enabled = ~alarms[k].enabled
    /\ [alarms'[k] EXCEPT !.enabled = ~@, !.g_consumed = alarms[k].g_consumed] = alarms[k]
    /\ \A j \in 1..Len(alarms) : j # k => alarms'[j] = alarms[j]

\* Position k (from 1) is removed and the later alarms move down by one.
RemovedAt(k) ==
    /\ Len(alarms') = Len(alarms) - 1
    /\ \A j \in 1..(k - 1) : alarms'[j] = alarms[j]
    /\ \A j \in k..Len(alarms') : alarms'[j] = alarms[j + 1]

Untouched_Registry == alarms' = alarms /\ last'.saves = 0 /\ storage' = storage

\* C26: toggle and remove by integer i act on the alarm at position i, a
\* removal moving the later alarms down by one in their order; by name they
\* act on the first alarm of that name in list order and on no other; the
\* answer to a toggle names the alarm looked up and its new state.
C26_PositionalAndFirstMatch ==
    [][/\ \A t \in ByIndex : last'.exec = <<t.cmd>> =>
             IF t.i < Len(alarms)
             THEN IF t.op = "toggle"
                  THEN /\ ToggledAt(t.i + 1)
                       /\ last'.sent[1].args[1] = alarms[t.i + 1].name
                       /\ last'.sent[1].args[2] = <<"O", "N">> <=> ~alarms[t.i + 1].enabled
                  ELSE RemovedAt(t.i + 1)
             ELSE Untouched_Registry
       /\ \A t \in ByName : last'.exec = <<t.cmd>> =>
             LET named == {k \in 1..Len(alarms) : alarms[k].name = t.name}
             IN  IF named = {}
                 THEN Untouched_Registry
                 ELSE LET first == CHOOSE k \in named : \A j \in named : k <= j
                      IN  IF t.op = "toggle"
                          THEN /\ ToggledAt(first)
                               /\ last'.sent[1].args[1] = t.name
                               /\ last'.sent[1].args[2] = <<"O", "N">> <=> ~alarms[first].enabled
                          ELSE RemovedAt(first)]_vars

\* The first of the two alarms of one name has been removed by name, with
\* the other still in the registry, behind the alarm of another name.
C26_Witness ==
    /\ last.exec = <<Cmd_removeW>>
    /\ Len(alarms) = 2
    /\ alarms[1].name = <<"D">>
    /\ alarms[2].name = <<"W">> /\ ~alarms[2].recurring

\* C25 (under SpecProto): a remove or toggle with an index outside
\* 0..len-1, or with a name that no alarm has, answers ERROR "Alarm not
\* found", leaves the alarm list as it was and writes nothing; and whenever
\* a remove or toggle answers "Alarm not found", no alarm was removed or
\* toggled.
C25_NotFoundLeavesRegistry ==
    [][/\ (\/ last'.exec \in {<<Cmd_toggle9>>, <<Cmd_remove9>>}
           \/ /\ last'.exec = <<Cmd_toggleW>>
              /\ \A k \in 1..Len(alarms) : alarms[k].name # <<"W">>) =>
            /\ last'.sent = <<[head |-> "ERROR", kind |-> "Alarm not found", args |-> <<>>]>>
            /\ alarms' = alarms
            /\ last'.saves = 0
            /\ storage' = storage
       /\ (/\ last'.exec # <<>>
           /\ last'.exec[1][1] \in {"r", "t"}
           /\ last'.sent = <<[head |-> "ERROR", kind |-> "Alarm not found", args |-> <<>>]>>) =>
            alarms' = alarms]_vars

(***************************************************************************)
(* SpecCalendar: the date functions called on their own, on a loaded and   *)
(* idle clock: _get_weekday on every date of FirstYear..LastYear,          *)
(* _add_days_to_date once with n1 + n2 days and twice with n1 and then n2, *)
(* and _calculate_next_trigger for an alarm and a clock reading.           *)
(***************************************************************************)
FirstYear == 1900

LastYear == 2100

clock_vars ==
    <<alarms, storage, command_queue, pc, current_time, next_alarm,
      alarms_modified, last, pass, dirty, write_failures, loop_vars, firing,
      link_vars, motor_vars, display, error_count, journal, last_heartbeat>>

\* The valid Gregorian dates of the years from..to.
DatesOf(from, to) ==
    {date \in (from..to) \X (1..12) \X (1..31) :
        date[3] <= MonthLength(date[1], date[2])}

CalcWeekday(date) ==
    /\ calc' = [op |-> "weekday", date |-> date,
                result |-> get_weekday(date[1], date[2], date[3])]
    /\ UNCHANGED clock_vars

\* Dates before and after the end of a February and of a year.
AddDates ==
    {<<2023, 12, 30>>, <<2023, 12, 31>>, <<2024, 1, 1>>, <<2024, 2, 28>>,
     <<2024, 2, 29>>, <<2023, 2, 28>>, <<2100, 2, 28>>, <<2024, 7, 31>>}

AddSpans == {0, 1, 2, 3, 29, 31, 60, 366, 731}

CalcAddDays(date, n1, n2) ==
    /\ LET first == add_days_to_date(date[1], date[2], date[3], n1)
       IN  calc' = [op |-> "add", date |-> date, n1 |-> n1, n2 |-> n2,
                    twice |-> add_days_to_date(first[1], first[2], first[3], n2),
                    once |-> add_days_to_date(date[1], date[2], date[3], n1 + n2)]
    /\ UNCHANGED clock_vars

\* The alarm that the command a7:30:7 adds.
Day7 == Alarm(7, 30, ListDays(<<7>>), <<"S">>, TRUE, TRUE, 75)

NextAlarms ==
    {Daily, Work, Weekend, Day7,
     Alarm(7, 30, ListDays(<<>>), <<"N">>, TRUE, TRUE, 75),
     Alarm(23, 59, ListDays(<<3, 0>>), <<"M">>, TRUE, TRUE, 75)}

NextNows ==
    {date \o time :
        date \in {<<2024, 1, 5>>, <<2024, 1, 6>>, <<2024, 2, 28>>, <<2024, 2, 29>>,
                  <<2023, 12, 31>>, <<2023, 2, 28>>, <<2024, 3, 3>>},
        time \in {<<7, 29, 59>>, <<7, 30, 0>>, <<7, 31, 0>>, <<6, 45, 0>>,
                  <<23, 59, 30>>}}

CalcNextTrigger(alarm, now) ==
    /\ calc' = [op |-> "next", alarm |-> alarm, now |-> now,
                result |-> calculate_next_trigger(alarm, now)]
    /\ UNCHANGED clock_vars

\* One call is made in a run.
NextCalendar ==
    \/ calc = NoCalc /\ \E date \in DatesOf(FirstYear, LastYear) : CalcWeekday(date)
    \/ calc = NoCalc /\ \E date \in AddDates, n1, n2 \in AddSpans : CalcAddDays(date, n1, n2)
    \/ calc = NoCalc /\ \E alarm \in NextAlarms, now \in NextNows : CalcNextTrigger(alarm, now)

SpecCalendar == InitQueue /\ [][NextCalendar]_vars

\* The reference calendar: the days from 1900-01-01, a Monday, to a date.
LeapsThrough(y) == (y \div 4) - (y \div 100) + (y \div 400)

DayNumber(date) ==
    365 * (date[1] - 1900) + (LeapsThrough(date[1] - 1) - LeapsThrough(1899))
    + DaysBeforeMonth(date[1], date[2]) + (date[3] - 1)

ValidDate(date) ==
    /\ date[2] \in 1..12
    /\ date[3] >= 1 /\ date[3] <= MonthLength(date[1], date[2])

\* C28: for every valid date of FirstYear..LastYear, _get_weekday returns
\* the weekday of the reference day-count calendar, 0 = Monday .. 6 =
\* Sunday; 2024-01-01 gives 0 and 2000-02-29 gives 1.
C28_WeekdayMatchesCalendar ==
    calc.op = "weekday" =>
        /\ calc.result \in 0..6
        /\ calc.result = DayNumber(calc.date) % 7
        /\ calc.date = <<2024, 1, 1>> => calc.result = 0
        /\ calc.date = <<2000, 2, 29>> => calc.result = 1

\* The weekday of 29 February 2000, a Tuesday, has been computed.
C28_Witness ==
    calc.op = "weekday" /\ calc.date = <<2000, 2, 29>> /\ calc.result = 1

\* C29: for a valid date and n1, n2 >= 0, adding n1 days and then n2 days
\* gives what adding n1 + n2 days gives, and the result is a valid date;
\* 2024-02-28 + 2 is 2024-03-01 and 2023-12-30 + 3 is 2024-01-02.
C29_AddDaysComposes ==
    calc.op = "add" =>
        /\ calc.twice = calc.once
        /\ ValidDate(calc.once)
        /\ calc.date = <<2024, 2, 28>> /\ calc.n1 + calc.n2 = 2 =>
              calc.once = <<2024, 3, 1>>
        /\ calc.date = <<2023, 12, 30>> /\ calc.n1 + calc.n2 = 3 =>
              calc.once = <<2024, 1, 2>>

\* Two years and a day were added to 29 February 2024, itself reached in a
\* first call from 31 December 2023.
C29_Witness ==
    /\ calc.op = "add"
    /\ calc.date = <<2023, 12, 31>>
    /\ calc.n1 = 60 /\ calc.n2 = 731
    /\ calc.twice = <<2026, 3, 1>>

\* The reference calendar: the day after a date, and the date n days later.
Tomorrow(date) ==
    IF date[3] < MonthLength(date[1], date[2]) THEN <<date[1], date[2], date[3] + 1>>
    ELSE IF date[2] < 12 THEN <<date[1], date[2] + 1, 1>>
    ELSE <<date[1] + 1, 1, 1>>

RECURSIVE DaysLater(_, _)
DaysLater(date, n) == IF n = 0 THEN date ELSE DaysLater(Tomorrow(date), n - 1)

\* The earliest minute after the minute of now at which the alarm's time and
\* recurrence match, looking a week ahead; <<>> when there is none.
EarliestMatch(alarm, now) ==
    LET today == <<now[1], now[2], now[3]>>
        ahead == alarm.hour > now[4] \/ (alarm.hour = now[4] /\ alarm.minute > now[5])
        DayMatch(date) ==
            alarm.days.kind = "none" \/ InSeq(DayNumber(date) % 7, alarm.days.v)
        days == {n \in 0..7 : DayMatch(DaysLater(today, n)) /\ (n = 0 => ahead)}
    IN  IF days = {} THEN <<>>
        ELSE DaysLater(today, CHOOSE n \in days : \A o \in days : n <= o)
             \o <<alarm.hour, alarm.minute, 0>>

\* C27: _calculate_next_trigger returns the earliest instant after the
\* current minute at which the alarm's time and recurrence match (daily:
\* today if the time is still ahead, else tomorrow; weekday set: today if
\* today is in the set and the time is ahead, else the first of the next 7
\* days in the set), and for a weekday alarm it returns none only if the
\* set is empty.
C27_NextTriggerEarliest ==
    calc.op = "next" =>
        /\ calc.result = EarliestMatch(calc.alarm, calc.now)
        /\ calc.alarm.days.kind = "list" /\ calc.result = <<>> =>
              calc.alarm.days.v = <<>>

(***************************************************************************)
(* SpecDisplay: SpecReg with a display collaborator that may be attached.  *)
(***************************************************************************)
NextDisplay ==
    \/ NextReg
    \/ AttachDisplay

SpecDisplay == InitReg /\ [][NextDisplay]_vars

\* C30: after every successful mutation of the registry (an add, remove or
\* toggle that returns True, a one-time alarm disabled by its firing) the
\* refresh hook of the display collaborator is called exactly when one is
\* attached; without one the operations complete all the same.
C30_RefreshAfterMutation ==
    [][(\/ last'.exec # <<>> /\ last'.ret = "True"
        \/ /\ last'.ev # <<>>
           /\ last'.ev[1].fires
           /\ ~last'.ev[1].before.recurring) =>
          (last'.refreshed <=> display)]_vars


(***************************************************************************)
(* SpecRange: the program starts on files that another writer has left,    *)
(* with strengths, hours and minutes outside their ranges, and then adds,  *)
(* toggles, removes, fires (the pattern taken one drive call at a time)    *)
(* and restarts.                                                           *)
(***************************************************************************)
\* Stored objects: a strength above 100, a strength below 0 on a one-time
\* alarm, and an hour and a minute that no clock shows.
Rec_strong == [hour |-> 7, minute |-> 30, vibration_strength |-> 150]

Rec_weak ==
    [hour |-> 7, minute |-> 30, recurring |-> FALSE, vibration_strength |-> -20]

Rec_late == [hour |-> 25, minute |-> 61]

RangeFiles == {Missing, FileOf(<<Rec_strong, Rec_weak>>), FileOf(<<Rec_late>>)}

RangeCommands == {Cmd_add_daily, Cmd_remove0}

InitRange == \E file \in RangeFiles : Startup(file)

NextRange ==
    \/ \E reading \in AddReadings : Tick(reading)
    \/ \E outcome \in EvalOutcomes : CheckAlarm(outcome)
    \/ Drive
    \/ \E motor \in MotorOk, o1, o2 \in EvalOutcomes : EndPattern(motor, o1, o2)
    \/ \E outcome \in EvalOutcomes : ProcessCommand(outcome)
    \/ FinishTick
    \/ \E command \in RangeCommands : GattsWrite(command)
    \/ ClientConnects
    \/ \E a \in AddCalls, outcome \in EvalOutcomes : AddCall(a, outcome)
    \/ Restart

SpecRange == InitRange /\ [][NextRange]_vars

\* C31: every alarm of the registry, added or loaded, has a strength in
\* 0..100, and each drive call of a firing sets an output to
\* int(strength / 100 * 65535) of the strength of the alarm that fires.
C31_StrengthInRange ==
    /\ \A k \in 1..Len(alarms) : alarms[k].vibration_strength \in 0..100
    /\ last.pattern = "drive" =>
          LET d == (alarms[next_alarm].vibration_strength * 65535) \div 100
          IN  pwm \in {[a |-> d, b |-> 0], [a |-> 0, b |-> d]}

\* The alarm stored with the strength 150 fires and drives the motor at 100.
C31_Witness ==
    /\ last.pattern = "drive"
    /\ storage.state = "ok"
    /\ storage.data[next_alarm].vibration_strength = 150
    /\ alarms[next_alarm].vibration_strength = 100
    /\ pwm = [a |-> 65535, b |-> 0]

\* C36: after any sequence of loads, adds, removes, toggles, commands and
\* ticks, every alarm of the registry has its hour in 0..23 and its minute in
\* 0..59.
C36_TimeInRange ==
    \A k \in 1..Len(alarms) : alarms[k].hour \in 0..23 /\ alarms[k].minute \in 0..59


(***************************************************************************)
(* SpecReport: alarms are added by commands at and around their own time   *)
(* of day, the next trigger computed for each answer is kept in the        *)
(* journal, and the loop goes on ticking.  The clock readings come in any  *)
(* order.  _calculate_next_trigger reads the clock itself; it is taken to  *)
(* get the reading of the iteration in which the command is executed.      *)
(***************************************************************************)
ReportReadings ==
    {<<2024, 1, 5, 7, 29, 30>>, <<2024, 1, 5, 7, 30, 0>>, <<2024, 1, 5, 7, 30, 30>>}

ReportCommands == {Cmd_add_daily, Cmd_add_work}

InitReport == StartupJournal(Missing)

NextReport ==
    \/ \E reading \in ReportReadings : Tick(reading)
    \/ \E outcome \in EvalOutcomes : CheckAlarm(outcome)
    \/ \E motor \in MotorOk, o1, o2 \in EvalOutcomes : TriggerAlarm(motor, o1, o2)
    \/ \E outcome \in EvalOutcomes : ProcessCommand(outcome)
    \/ FinishTick
    \/ \E command \in ReportCommands : GattsWrite(command)
    \/ ClientConnects

SpecReport == InitReport /\ [][NextReport]_vars

\* The order of the instants two clock readings name: by the day count from
\* 1900-01-01, then by the second of the day.
SecondOfDay(time) == time[4] * 3600 + time[5] * 60 + time[6]

Earlier(x, y) ==
    LET dx == DayNumber(<<x[1], x[2], x[3]>>)
        dy == DayNumber(<<y[1], y[2], y[3]>>)
    IN  dx < dy \/ (dx = dy /\ SecondOfDay(x) < SecondOfDay(y))

\* C33: an alarm for which the next trigger T was computed at the reading t
\* does not fire at a tick whose reading is at or after t and before T.
C33_NoFiringBeforeReported ==
    Evaluated /\ Ev.fires =>
        \A rep \in journal.reported :
            rep[1] = Ev.pos /\ rep[3] # <<>> =>
                ~(~Earlier(Ev.time, rep[2]) /\ Earlier(Ev.time, rep[3]))


(***************************************************************************)
(* SpecJump: the clock is set or glitches between ticks, so that the       *)
(* readings come in any order, back and forth between two days; the        *)
(* journal keeps the minute keys in which each alarm has fired.            *)
(***************************************************************************)
JumpReadings ==
    {<<2024, 1, 5, 7, 30, 0>>, <<2024, 1, 5, 7, 30, 30>>, <<2024, 1, 5, 7, 31, 0>>,
     <<2024, 1, 6, 7, 30, 0>>, <<2024, 1, 7, 7, 30, 0>>}

JumpFiles == {Saved(<<Daily, Work>>), Saved(<<Weekend, Once>>)}

InitJump == \E file \in JumpFiles : StartupJournal(file)

NextJump ==
    \/ \E reading \in JumpReadings : Tick(reading)
    \/ \E outcome \in EvalOutcomes : CheckAlarm(outcome)
    \/ \E motor \in MotorOk, o1, o2 \in EvalOutcomes : TriggerAlarm(motor, o1, o2)
    \/ FinishTick

SpecJump == InitJump /\ [][NextJump]_vars

\* C34: whatever the order of the clock readings, an alarm fires at most
\* once for any one calendar minute (year, month, day, hour, minute).
C34_OncePerMinute ==
    [][last'.started # <<>> =>
           <<last'.started[1].pos, MinuteKey(last'.started[1].time)>>
               \notin journal.fired]_vars

(***************************************************************************)
(* SpecRestart: the device restarts between ticks that read the same       *)
(* minute, with toggle commands in between; the file is written without    *)
(* failures, and the journal keeps the firings across the restarts.        *)
(***************************************************************************)
RestartReadings ==
    {<<2024, 1, 5, 7, 30, 0>>, <<2024, 1, 5, 7, 30, 30>>, <<2024, 1, 5, 7, 31, 0>>, <<>>}

RestartFiles == {Saved(<<Daily, Once>>), Saved(<<Work>>)}

InitRestart == \E file \in RestartFiles : StartupJournal(file)

NextRestart ==
    \/ \E reading \in RestartReadings : Tick(reading)
    \/ \E outcome \in EvalOutcomes : CheckAlarm(outcome)
    \/ \E motor \in MotorOk, o1, o2 \in EvalOutcomes : TriggerAlarm(motor, o1, o2)
    \/ \E outcome \in EvalOutcomes : ProcessCommand(outcome)
    \/ FinishTick
    \/ GattsWrite(Cmd_toggle0)
    \/ ClientConnects
    \/ Restart

SpecRestart == InitRestart /\ [][NextRestart]_vars

\* C35: the fired-this-minute state of a recurring alarm survives the save
\* and the load of a restart: the key of the minute in which it fired is
\* still recorded after the restart, and the alarm does not fire again in a
\* minute in which it has fired before the restart.
C35_FiredStateSurvivesRestart ==
    [][/\ last'.restarted /\ Len(alarms') = Len(alarms) =>
            \A k \in 1..Len(alarms) :
                alarms[k].recurring /\ alarms[k].g_run # <<>> =>
                    alarms'[k].last_triggered = alarms[k].last_triggered
       /\ last'.started # <<>> /\ last'.started[1].before.recurring =>
            <<last'.started[1].pos, MinuteKey(last'.started[1].time)>>
                \notin journal.fired]_vars

(***************************************************************************)
(* SpecCountdown: the countdown of an alarm's next trigger, as the add     *)
(* handler, the list handler and the display compute it:                   *)
(* _calculate_next_trigger and then _format_time_until (the display's      *)
(* format_time_until makes the same subtraction), both with the same clock *)
(* reading.                                                                *)
(***************************************************************************)
\* time_to_minutes of _format_time_until and of format_time_until.
time_to_minutes(time_tuple) ==
    (time_tuple[1] - 2025) * 365 * 24 * 60
    + (time_tuple[2] - 1) * 30 * 24 * 60
    + (time_tuple[3] - 1) * 24 * 60
    + time_tuple[4] * 60 + time_tuple[5]

diff_minutes(target_time, now) ==
    time_to_minutes(target_time) - time_to_minutes(now)

\* The "s" of a plural.
Plural(n) == IF n # 1 THEN <<"s">> ELSE <<>>

\* _format_time_until with the clock reading now; the text is the
\* sequence of its words and numbers.
format_time_until_text(target_time, now) ==
    IF now = <<>> \/ target_time = <<>> THEN <<"unknown">>
    ELSE
    LET diff == diff_minutes(target_time, now)
        Minutes(n) == IntToStr(n) \o <<" ", "minute">> \o Plural(n)
        Hours(n) == IntToStr(n) \o <<" ", "hour">> \o Plural(n)
        Days(n) == IntToStr(n) \o <<" ", "day">> \o Plural(n)
    IN  IF diff < 0 THEN <<"in the past">>
        ELSE IF diff = 0 THEN <<"now">>
        ELSE IF diff < 60 THEN <<"in", " ">> \o Minutes(diff)
        ELSE IF diff < 1440 THEN
            LET hours == diff \div 60
                minutes == diff % 60
            IN  IF minutes = 0 THEN <<"in", " ">> \o Hours(hours)
                ELSE <<"in", " ">> \o Hours(hours) \o <<" ", "and", " ">> \o Minutes(minutes)
        ELSE
            LET days == diff \div 1440
                hours == (diff % 1440) \div 60
                minutes == (diff % 1440) % 60
            IN  <<"in", " ">> \o Days(days)
                \o (IF hours > 0 THEN <<" ", "and", " ">> \o Hours(hours) ELSE <<>>)
                \o (IF hours = 0 /\ minutes > 0
                    THEN <<" ", "and", " ">> \o Minutes(minutes) ELSE <<>>)

\* DisplayManager.format_time_until with the clock reading now.
display_format_time_until(target_time, now) ==
    IF now = <<>> \/ target_time = <<>> THEN <<"???">>
    ELSE
    LET diff == diff_minutes(target_time, now)
    IN  IF diff < 0 THEN <<"past">>
        ELSE IF diff = 0 THEN <<"now">>
        ELSE IF diff < 60 THEN IntToStr(diff) \o <<"m">>
        ELSE IF diff < 1440 THEN
            IF diff % 60 = 0 THEN IntToStr(diff \div 60) \o <<"h">>
            ELSE IntToStr(diff \div 60) \o <<"h">> \o IntToStr(diff % 60) \o <<"m">>
        ELSE
            IF (diff % 1440) \div 60 = 0 THEN IntToStr(diff \div 1440) \o <<"d">>
            ELSE IntToStr(diff \div 1440) \o <<"d">>
                 \o IntToStr((diff % 1440) \div 60) \o <<"h">>

\* The countdown of an alarm at a clock reading.
CalcCountdown(alarm, now) ==
    /\ LET next_trigger == calculate_next_trigger(alarm, now)
       IN  calc' = [op |-> "countdown", alarm |-> alarm, now |-> now,
                    next_trigger |-> next_trigger,
                    diff |-> IF next_trigger = <<>> THEN 0
                             ELSE diff_minutes(next_trigger, now),
                    time_until |-> format_time_until_text(next_trigger, now),
                    compact |-> display_format_time_until(next_trigger, now)]
    /\ UNCHANGED clock_vars

\* Alarms of every day, early, in the morning and late.
CountdownAlarms ==
    {Daily, Alarm(0, 0, NoDays, <<"Z">>, TRUE, TRUE, 75),
     Alarm(23, 59, NoDays, <<"L">>, TRUE, FALSE, 75), Work}

\* The first, the middle and the last days of the months of two years, one
\* of them a leap year, at times before, in and after the alarms' minutes.
CountdownNows ==
    {date \o time :
        date \in {d \in DatesOf(2024, 2025) :
                     d[3] \in {1, 15, MonthLength(d[1], d[2])}},
        time \in {<<0, 0, 0>>, <<7, 29, 59>>, <<7, 30, 0>>, <<8, 0, 0>>,
                  <<23, 59, 59>>}}

\* One countdown is computed in a run.
NextCountdown ==
    calc = NoCalc /\ \E alarm \in CountdownAlarms, now \in CountdownNows :
                         CalcCountdown(alarm, now)

SpecCountdown == InitQueue /\ [][NextCountdown]_vars

\* C37: for an alarm of every day and any clock reading, the countdown of
\* its next trigger is never in the past: the minute difference between the
\* projected trigger and the reading is at least 1, and neither text is the
\* one of the past.
C37_CountdownNeverPast ==
    calc.op = "countdown" /\ calc.alarm.days = NoDays =>
        /\ calc.diff >= 1
        /\ calc.time_until # <<"in the past">>
        /\ calc.compact # <<"past">>

(***************************************************************************)
(* SpecStop: the tick loop with the actuator pattern taken one drive call   *)
(* at a time, motor functions that return, and a KeyboardInterrupt that    *)
(* may arrive at any point of the loop, the pattern included.              *)
(***************************************************************************)
NextStop ==
    \/ \E reading \in LoopReadings : Tick(reading)
    \/ \E outcome \in MotorOk : CheckAlarm(outcome)
    \/ Drive
    \/ \E motor, o1, o2 \in MotorOk : EndPattern(motor, o1, o2)
    \/ FinishTick
    \/ Interrupt

SpecStop == InitMotor /\ [][NextStop]_vars

\* C38: whenever the loop is not inside the actuator pattern (between the
\* ticks, and after the loop has stopped on a user interrupt, an interrupt
\* during a pattern included), both outputs of the actuator are at 0.
C38_StoppedOutsidePattern ==
    pc # "pattern" => pwm = [a |-> 0, b |-> 0]

(***************************************************************************)
(* run_bluetooth_tasks after _process_command_queue has found the queue    *)
(* empty: check_connection_health, then _recover_bluetooth when            *)
(* error_count has reached max_errors, then the end of the iteration.      *)
(* LeaveDrain is the exit of the while loop of _process_command_queue;     *)
(* FinishTasks is everything from there to the sleep.  The events of the   *)
(* link are callbacks that run at a check point of the interpreter: one    *)
(* may run between the exit of the loop and the clear of the queue, none   *)
(* between two adjacent assignments.                                       *)
(***************************************************************************)
bt_max_errors == 5

\* The errors counted in one run.
MaxLinkErrors == 6

\* What a call of the BLE stack does: it returns, or it raises.
BleOutcomes == {"ok", "raise"}

\* time.time() - last_heartbeat at the health check: above 300 ("timeout",
\* which takes a stale last_heartbeat), at most 300 and a multiple of 60
\* ("beat", as in the very second of a write), or neither ("recent").
HeartbeatAges == {"recent", "beat", "timeout"}

\* check_connection_health that forgets the connection and keeps its handle.
check_connection_health_keeps_handle(link, errors, age, ble) ==
    IF link.connected /\ age = "timeout"
    THEN [connected |-> FALSE, conn_handle |-> link.conn_handle,
          error_count |-> errors + (IF ble = "raise" THEN 1 ELSE 0),
          sent |-> <<>>, health |-> age]
    ELSE [connected |-> link.connected, conn_handle |-> link.conn_handle,
          error_count |-> errors, sent |-> <<>>,
          health |-> IF link.connected THEN age ELSE "none"]

\* check_connection_health: on a timeout the connection is forgotten and
\* start_advertising is called, which counts an error when the stack raises;
\* on a beat HEARTBEAT:OK is sent by _send_response, which counts an error
\* when the notify raises.
check_connection_health(link, errors, age, ble) ==
    IF ~link.connected
    THEN [connected |-> FALSE, conn_handle |-> link.conn_handle,
          error_count |-> errors, sent |-> <<>>, health |-> "none"]
    ELSE IF age = "timeout"
    THEN [connected |-> FALSE, conn_handle |-> <<>>,
          error_count |-> errors + (IF ble = "raise" THEN 1 ELSE 0),
          sent |-> <<>>, health |-> age]
    ELSE IF age = "beat"
    THEN [connected |-> TRUE, conn_handle |-> link.conn_handle,
          error_count |-> errors + (IF ble = "raise" THEN 1 ELSE 0),
          sent |-> <<Frame("HEARTBEAT", "OK", <<>>)>>, health |-> age]
    ELSE [connected |-> TRUE, conn_handle |-> link.conn_handle,
          error_count |-> errors, sent |-> <<>>, health |-> age]

\* _recover_bluetooth: the connection is forgotten and the queue cleared;
\* then the stack is reset, and error_count is set to 0 unless the reset
\* raises.
recover_bluetooth(queue, errors, ble) ==
    [connected |-> FALSE, conn_handle |-> <<>>, command_queue |-> <<>>,
     error_count |-> IF ble = "ok" THEN 0 ELSE errors]

\* The while loop of _process_command_queue finds the queue empty.
LeaveDrain ==
    /\ pc = "drain"
    /\ command_queue = <<>>
    /\ pc' = "tasks"
    /\ last' = Quiet
    /\ UNCHANGED <<alarms, storage, command_queue, current_time, next_alarm,
                   alarms_modified, pass, dirty, write_failures, loop_vars,
                   firing, link_vars, motor_vars, calc, display, error_count,
                   journal, last_heartbeat>>

FinishTasks(age, ble, reset) ==
    /\ pc = "tasks"
    /\ LET h == check_connection_health(
                    [connected |-> connected, conn_handle |-> conn_handle],
                    error_count, age, ble)
           recovering == h.error_count >= bt_max_errors
           r == recover_bluetooth(command_queue, h.error_count, reset)
       IN  /\ h.error_count <= MaxLinkErrors
           /\ ~connected => age = "recent" /\ ble = "ok"
           /\ last_heartbeat = "fresh" => age # "timeout"
           /\ age = "recent" => ble = "ok"
           /\ ~recovering => reset = "ok"
           /\ connected' = IF recovering THEN r.connected ELSE h.connected
           /\ conn_handle' = IF recovering THEN r.conn_handle ELSE h.conn_handle
           /\ command_queue' = IF recovering THEN r.command_queue ELSE command_queue
           /\ error_count' = IF recovering THEN r.error_count ELSE h.error_count
           /\ last' = [Quiet EXCEPT !.tick = "done", !.prev_delay = delay,
                                    !.sent = h.sent, !.health = h.health,
                                    !.recovered = recovering]
    /\ pc' = "sleep"
    /\ current_time' = <<>>
    /\ consecutive_errors' = 0
    /\ delay' = SleepInterval(0)
    /\ UNCHANGED <<alarms, storage, next_alarm, alarms_modified, pass, dirty,
                   write_failures, firing, motor_vars, calc, display, journal,
                   last_heartbeat>>

\* More than 300 seconds pass, in the sleeps of the loop, in which the
\* central neither connects nor writes.
Silence ==
    /\ pc = "sleep"
    /\ last_heartbeat = "fresh"
    /\ last_heartbeat' = "stale"
    /\ last' = Quiet
    /\ UNCHANGED <<alarms, storage, command_queue, pc, current_time,
                   next_alarm, alarms_modified, pass, dirty, write_failures,
                   loop_vars, firing, link_vars, motor_vars, calc, display,
                   error_count, journal>>

(***************************************************************************)
(* SpecHealth: the loop with its Bluetooth tasks, no alarm in the          *)
(* registry, two centrals that connect, disconnect and write to either     *)
(* characteristic at any point, heartbeats of every age and calls of the   *)
(* stack that may raise.                                                   *)
(***************************************************************************)
HealthReadings == {<<2024, 1, 5, 7, 30, 0>>}

\* A ping and a toggle of an alarm that does not exist.
HealthCommands == {Cmd_ping, Cmd_toggle9}

NextHealth ==
    \/ \E reading \in HealthReadings : Tick(reading)
    \/ \E outcome \in EvalOutcomes : ProcessCommand(outcome)
    \/ LeaveDrain
    \/ \E age \in HeartbeatAges, ble, reset \in BleOutcomes : FinishTasks(age, ble, reset)
    \/ Silence
    \/ \E conn \in Handles : Connect(conn)
    \/ \E conn \in Handles : Disconnect(conn)
    \/ \E conn \in Handles, value_handle \in ValueHandles, command \in HealthCommands :
          /\ Len(command_queue) < MaxQueued
          /\ HandleWrite(conn, value_handle, command)

SpecHealth == InitQueue /\ [][NextHealth]_vars

\* C40: in every reachable state connected is true exactly when a
\* connection handle is recorded; a disconnect event for a handle other
\* than the recorded one changes neither the connection nor the queue nor
\* the error count; and a write event changes the queue only if it comes
\* from the recorded handle and is for the command characteristic, the
\* queue growing by no other step.
C40_ConnectedIffHandle ==
    /\ [](connected <=> conn_handle # <<>>)
    /\ [][/\ \A conn \in Handles :
                Disconnect(conn) /\ <<conn>> # conn_handle =>
                    UNCHANGED <<connected, conn_handle, command_queue, error_count>>
          /\ \A conn \in Handles, value_handle \in ValueHandles,
                command \in HealthCommands :
                HandleWrite(conn, value_handle, command)
                /\ command_queue' # command_queue =>
                    /\ connected /\ <<conn>> = conn_handle
                    /\ value_handle = "command"
          /\ Len(command_queue') > Len(command_queue) => last'.link = "write"]_vars

\* The heartbeat of the connected central has timed out at the health
\* check of an iteration; that check has counted an error, and no recovery
\* was made.
C40_Witness ==
    /\ last.health = "timeout"
    /\ ~connected /\ conn_handle = <<>>
    /\ ~last.recovered
    /\ error_count > 0

\* C39: a command leaves the queue only by being executed, once, and
\* answered with at least one frame, or as the oldest entry when a write
\* arrives at a full queue: a step that changes the queue is a write that
\* appends one command, or the execution of the head of the queue that
\* leaves the rest queued.
C39_CommandsExecutedOnce ==
    [][command_queue' # command_queue =>
           \/ /\ last'.link = "write"
              /\ \/ command_queue' = Append(command_queue, command_queue'[Len(command_queue')])
                 \/ /\ Len(command_queue) >= max_queue_size
                    /\ command_queue' = Append(Tail(command_queue),
                                               command_queue'[Len(command_queue')])
           \/ /\ last'.exec = <<Head(command_queue).command>>
              /\ last'.sent # <<>>
              /\ command_queue' = Tail(command_queue)]_vars

====
